---------------------------- MODULE Spec2Model ----------------------------
(***************************************************************************)
(* A model of the JT/T 808 frame parser of libjt808: the decoder registry  *)
(* (JT808FrameParserInit / Append / Override), the frame parser            *)
(* (JT808FrameParse), the header decoder (JT808FrameHeadParse) and the     *)
(* built-in body decoders.  Buffers are sequences of bytes 0..255; a C++   *)
(* index i is the TLA+ index i + 1.                                        *)
(***************************************************************************)
EXTENDS Integers, Sequences, FiniteSets, TLC

VARIABLES
    parser,   \* the decoder registry: msg_id -> handler (std::map<uint16_t, ParseHandler>)
    para,     \* the caller's ProtocolParameter (send view and nested parse view)
    rcall,    \* the last registry call: operation, arguments, result, registry before
    pcall,    \* the last JT808FrameParse call: input, result, what it invoked and read
    ncalls,   \* number of JT808FrameParse calls made so far
    upg,      \* JT808Server::UpgradeRequest: its position, locals, the client's
              \* para and what it has handed to the packager so far
    server,   \* JT808Server: clients_, is_upgrading_clients_, the waiting and the
              \* service thread, the sockets and what passed over them
    client    \* JT808Client: polygon_areas_ and the last call on it

vars == <<parser, para, rcall, pcall, ncalls, upg, server, client>>

(***************************************************************************)
(* Bounds of the model.                                                    *)
(***************************************************************************)
\* JT808FrameParse calls per behaviour.
MaxCalls == 1

(***************************************************************************)
(* SupportedCommands (protocol_parameter.h).                               *)
(***************************************************************************)
kTerminalGeneralResponse == 1
kPlatformGeneralResponse == 32769
kTerminalHeartBeat == 2
kFillPacketRequest == 32771
kTerminalRegister == 256
kTerminalRegisterResponse == 33024
kTerminalLogOut == 3
kTerminalAuthentication == 258
kSetTerminalParameters == 33027
kGetTerminalParameters == 33028
kGetSpecificTerminalParameters == 33030
kGetTerminalParametersResponse == 260
kTerminalUpgrade == 33032
kTerminalUpgradeResultReport == 264
kLocationReport == 512
kGetLocationInformation == 33281
kGetLocationInformationResponse == 513
kLocationTrackingControl == 33282
kSetPolygonArea == 34308
kDeletePolygonArea == 34309
kMultimediaDataUpload == 2049
kMultimediaDataUploadResponse == 34816
kVersionInformation == 517
kBatchLocationReport == 1796

\* VehiclePlateColor::kVin.
kVin == 0

\* MsgBodyPos.
MSGBODY_NOPACKET_POS == 13
MSGBODY_PACKET_POS == 17

\* ProtocolEscapeFlag.
PROTOCOL_SIGN == 126
PROTOCOL_ESCAPE == 125
PROTOCOL_ESCAPE_SIGN == 2
PROTOCOL_ESCAPE_ESCAPE == 1

\* enum class ParserError: the value of each enumerator.
ParserError ==
    [Ok |-> 0, MiscError |-> -1, ParametersNull |-> -2, UnesapingError |-> -3,
     ChecksumError |-> -4, HeaderParseError |-> -5, UnregisteredMessageParser |-> -6]

(***************************************************************************)
(* Byte utilities.                                                         *)
(***************************************************************************)
RECURSIVE XorBits(_, _, _)
XorBits(a, b, n) ==
    IF n = 0 THEN 0
    ELSE (((a % 2) + (b % 2)) % 2) + (2 * XorBits(a \div 2, b \div 2, n - 1))

\* a ^ b on uint8_t, tabulated.
XorTable == [a \in 0..255 |-> [b \in 0..255 |-> XorBits(a, b, 8)]]
Xor8(a, b) == XorTable[a][b]

\* The bytes s[from .. from+len-1] (C++ indices), empty when len <= 0.
Slice(s, from, len) ==
    IF len <= 0 THEN <<>> ELSE [k \in 1..len |-> s[from + k]]

\* The XOR of bytes[lo .. hi], halving the range.
RECURSIVE XorRange(_, _, _)
XorRange(bytes, lo, hi) ==
    IF lo > hi THEN 0
    ELSE IF lo = hi THEN bytes[lo]
    ELSE LET mid == (lo + hi) \div 2
         IN  Xor8(XorRange(bytes, lo, mid), XorRange(bytes, mid + 1, hi))

\* uint8_t BccCheckSum(const uint8_t* src, size_t len): the XOR of len bytes.
BccCheckSum(bytes) == XorRange(bytes, 1, Len(bytes))

\* The concatenation of piece[lo], ..., piece[hi], halving the range.
RECURSIVE Concat(_, _, _)
Concat(piece, lo, hi) ==
    IF lo > hi THEN <<>>
    ELSE IF lo = hi THEN piece[lo]
    ELSE LET mid == (lo + hi) \div 2
         IN  Concat(piece, lo, mid) \o Concat(piece, mid + 1, hi)

\* int ReverseEscape(in, out): 7D 02 -> 7E, 7D 01 -> 7D; a 7D followed by
\* anything else, or by nothing, is an error (-1); other bytes are copied.
\* A byte that follows a 7D is 01 or 02, so every 7D starts an escape.
ReverseEscape(in) ==
    LET n == Len(in)
        bad == \E i \in 1..n :
                  /\ in[i] = PROTOCOL_ESCAPE
                  /\ \/ i = n
                     \/ in[i + 1] \notin {PROTOCOL_ESCAPE_SIGN, PROTOCOL_ESCAPE_ESCAPE}
        piece == [i \in 1..n |->
                    IF in[i] = PROTOCOL_ESCAPE
                    THEN IF in[i + 1] = PROTOCOL_ESCAPE_SIGN
                         THEN <<PROTOCOL_SIGN>> ELSE <<PROTOCOL_ESCAPE>>
                    ELSE IF i > 1 /\ in[i - 1] = PROTOCOL_ESCAPE THEN <<>>
                    ELSE <<in[i]>>]
    IN  IF bad THEN [ret |-> -1, out |-> <<>>]
        ELSE [ret |-> 0, out |-> Concat(piece, 1, n)]

\* int Escape(in, out): 7E -> 7D 02, 7D -> 7D 01 (the sender's side).
Escape(in) ==
    Concat([i \in 1..Len(in) |->
              IF in[i] = PROTOCOL_SIGN THEN <<PROTOCOL_ESCAPE, PROTOCOL_ESCAPE_SIGN>>
              ELSE IF in[i] = PROTOCOL_ESCAPE
                   THEN <<PROTOCOL_ESCAPE, PROTOCOL_ESCAPE_ESCAPE>>
                   ELSE <<in[i]>>], 1, Len(in))

\* int BcdToString(bcd, &str): two decimal digits per byte, high nibble
\* first; a nibble above 9 is an error (-1).
RECURSIVE BcdToString(_)
BcdToString(bcd) ==
    IF bcd = <<>> THEN [ret |-> 0, str |-> <<>>]
    ELSE LET hi == bcd[1] \div 16
             lo == bcd[1] % 16
             rest == BcdToString(Tail(bcd))
         IN  IF hi > 9 \/ lo > 9 \/ rest.ret < 0 THEN [ret |-> -1, str |-> <<>>]
             ELSE [ret |-> 0, str |-> <<hi, lo>> \o rest.str]

(***************************************************************************)
(* The decoder registry.                                                   *)
(***************************************************************************)
\* The message IDs JT808FrameParserInit registers a decoder for.
BuiltinIds ==
    {kTerminalGeneralResponse, kPlatformGeneralResponse, kTerminalHeartBeat,
     kFillPacketRequest, kTerminalRegister, kTerminalRegisterResponse,
     kTerminalLogOut, kTerminalAuthentication, kSetTerminalParameters,
     kGetTerminalParameters, kGetSpecificTerminalParameters,
     kGetTerminalParametersResponse, kTerminalUpgrade,
     kTerminalUpgradeResultReport, kLocationReport, kGetLocationInformation,
     kGetLocationInformationResponse, kLocationTrackingControl, kSetPolygonArea,
     kDeletePolygonArea, kMultimediaDataUpload, kMultimediaDataUploadResponse}

\* A ParseHandler: the built-in lambda of a message ID, or a caller's handler
\* that returns ret (0 on success, -1 on failure) and writes nothing.
BuiltinHandler(id) == [kind |-> "builtin", id |-> id, ret |-> 0]
CustomHandlers ==
    {[kind |-> "custom", id |-> 1, ret |-> 0], [kind |-> "custom", id |-> 2, ret |-> -1]}

EmptyParser == [id \in {} |-> BuiltinHandler(id)]

\* std::map::insert(pair): inserts only when the key is absent.
MapInsert(m, id, h) ==
    IF id \in DOMAIN m
    THEN [map |-> m, second |-> FALSE]
    ELSE [map |-> [k \in DOMAIN m \cup {id} |-> IF k = id THEN h ELSE m[k]],
          second |-> TRUE]

\* std::map::erase(key).
MapErase(m, id) == [k \in DOMAIN m \ {id} |-> m[k]]

\* int JT808FrameParserInit(Parser* parser): one insert per built-in decoder.
JT808FrameParserInit(m) ==
    [k \in DOMAIN m \cup BuiltinIds |-> IF k \in DOMAIN m THEN m[k] ELSE BuiltinHandler(k)]

\* An append that assigns like operator[]: a registered msg_id gets the new
\* handler.
AppendOverwrites(isNull, m, id, h) ==
    IF isNull THEN [map |-> m, second |-> FALSE]
    ELSE [map |-> MapInsert(MapErase(m, id), id, h).map,
          second |-> id \notin DOMAIN m]

\* bool JT808FrameParserAppend(Parser* parser, msg_id, handler).
JT808FrameParserAppend(isNull, m, id, h) ==
    IF isNull THEN [map |-> m, second |-> FALSE]
    ELSE MapInsert(m, id, h)

\* An override that skips the erase: std::map::insert keeps a registered handler.
OverrideWithoutErase(isNull, m, id, h) ==
    IF isNull THEN [map |-> m, second |-> FALSE]
    ELSE MapInsert(m, id, h)

\* bool JT808FrameParserOverride(Parser* parser, msg_id, handler).
JT808FrameParserOverride(isNull, m, id, h) ==
    IF isNull THEN [map |-> m, second |-> FALSE]
    ELSE LET erased == IF \E k \in DOMAIN m : k = id THEN MapErase(m, id) ELSE m
         IN  MapInsert(erased, id, h)

(***************************************************************************)
(* ProtocolParameter.                                                      *)
(***************************************************************************)
\* MsgHead, value-initialised.
ZeroMsgHead ==
    [msg_id |-> 0, msgbody_attr |-> 0, phone_num |-> <<>>, msg_flow_num |-> 0,
     total_packet |-> 0, packet_seq |-> 0]

\* RegisterInfo, value-initialised.
ZeroRegisterInfo ==
    [province_id |-> 0, city_id |-> 0, manufacturer_id |-> <<>>,
     terminal_model |-> <<>>, terminal_id |-> <<>>, car_plate_color |-> 0,
     car_plate_num |-> <<>>]

\* LocationBasicInformation, value-initialised.
ZeroLocationInfo ==
    [alarm |-> 0, status |-> 0, latitude |-> 0, longitude |-> 0, altitude |-> 0,
     speed |-> 0, bearing |-> 0, time |-> <<>>]

\* PolygonArea, value-initialised.  A vertex keeps latitude and longitude in
\* millionths of a degree.
ZeroPolygonArea ==
    [area_id |-> 0, area_attribute |-> 0, start_time |-> <<>>, stop_time |-> <<>>,
     max_speed |-> 0, overspeed_time |-> 0, vertices |-> <<>>]

\* MultiMediaDataUpload, value-initialised.
ZeroMultimediaUpload ==
    [media_id |-> 0, media_type |-> 0, media_format |-> 0, media_event |-> 0,
     channel_id |-> 0, loaction_report_body |-> <<>>, media_data |-> <<>>]

\* An empty std::map (TerminalParameters, LocationExtensions).
EmptyMap == [k \in {} |-> <<>>]

\* map[key] = value.
MapPut(m, key, value) == [k \in DOMAIN m \cup {key} |-> IF k = key THEN value ELSE m[k]]

\* The parse sub-view of ProtocolParameter, value-initialised.
ZeroParse ==
    [respone_result |-> 0, respone_msg_id |-> 0, respone_flow_num |-> 0,
     msg_head |-> ZeroMsgHead, register_info |-> ZeroRegisterInfo,
     authentication_code |-> <<>>,
     terminal_parameters |-> EmptyMap,
     location_info |-> ZeroLocationInfo, location_extension |-> EmptyMap,
     polygon_area |-> ZeroPolygonArea,
     multimedia_upload |-> ZeroMultimediaUpload,
     fill_packet |-> [first_packet_msg_flow_num |-> 0, packet_id |-> <<>>]]

\* ProtocolParameter para {}: the send view's fields and the parse view.
ZeroPara ==
    [respone_result |-> 0, respone_msg_id |-> 0, respone_flow_num |-> 0,
     msg_head |-> ZeroMsgHead, register_info |-> ZeroRegisterInfo,
     authentication_code |-> <<>>,
     terminal_parameters |-> EmptyMap,
     location_info |-> ZeroLocationInfo, location_extension |-> EmptyMap,
     polygon_area |-> ZeroPolygonArea, parse |-> ZeroParse]

\* MsgBodyAttribute bit fields of the 16-bit attribute word.
AttrMsgLen(u16val) == u16val % 1024
AttrEncrypt(u16val) == (u16val \div 1024) % 8
AttrPacket(u16val) == (u16val \div 8192) % 2

\* The attribute word with the given fields (reserved bits zero).
MakeAttr(packet, encrypt, msglen) == (packet * 8192) + (encrypt * 1024) + msglen

(***************************************************************************)
(* Reading the unescaped frame.  An index at or beyond the end of the      *)
(* buffer is an out-of-range read: the value read is whatever byte g lies  *)
(* there.                                                                  *)
(***************************************************************************)
At(in, i, g) == IF i >= 0 /\ i < Len(in) THEN in[i + 1] ELSE g

\* The bytes in[from], ..., in[from + len - 1].
Bytes(in, from, len, g) ==
    IF len <= 0 THEN <<>> ELSE [k \in 1..len |-> At(in, from + k - 1, g)]

\* The indices from, ..., from + len - 1.
Range(from, len) == from .. (from + len - 1)

\* in[pos] * 256 + in[pos + 1].
U16At(in, pos, g) == (At(in, pos, g) * 256) + At(in, pos + 1, g)

\* The bytes of a field before its first 0x00 (all of it when it has none):
\* what "if (in[pos + i] == 0x0) break; push_back(in[pos + i])" copies.
UntilZero(field) ==
    LET zeros == {k \in 1..Len(field) : field[k] = 0}
        n == IF zeros = {} THEN Len(field)
             ELSE (CHOOSE k \in zeros : \A j \in zeros : k <= j) - 1
    IN  SubSeq(field, 1, n)

\* Does a read of the given indices leave the buffer?
OutOfRange(in, reads) == \E i \in reads : i < 0 \/ i >= Len(in)

(***************************************************************************)
(* JT808FrameHeadParse.                                                    *)
(***************************************************************************)
HeadMinSize == 15

JT808FrameHeadParse(in, msg_head) ==
    IF Len(in) < HeadMinSize THEN [ret |-> -1, head |-> msg_head]
    ELSE LET id == (in[2] * 256) + in[3]
             attr == (in[4] * 256) + in[5]
             bcd == BcdToString(Slice(in, 5, 6))
             h1 == [msg_head EXCEPT !.msg_id = id, !.msgbody_attr = attr]
         IN  IF bcd.ret # 0 THEN [ret |-> -1, head |-> h1]
             ELSE LET h2 == [h1 EXCEPT !.phone_num = bcd.str,
                                       !.msg_flow_num = (in[12] * 256) + in[13]]
                  IN  IF AttrPacket(attr) = 1 /\ (Len(in) - 15) - AttrMsgLen(attr) = 4
                      THEN [ret |-> 0,
                            head |-> [h2 EXCEPT !.total_packet = (in[14] * 256) + in[15],
                                                !.packet_seq = (in[16] * 256) + in[17]]]
                      ELSE [ret |-> 0,
                            head |-> [h2 EXCEPT !.total_packet = 0, !.packet_seq = 0]]

(***************************************************************************)
(* The built-in body decoders.  Each takes the unescaped frame, the parse  *)
(* view (its msg_head already decoded) and the byte g an out-of-range read *)
(* yields; it gives the handler's return value, the parse view it leaves,  *)
(* the indices of the frame it read and whether it left defined behaviour. *)
(***************************************************************************)
\* pos after the decoder's "if (packet == 1) pos = MSGBODY_PACKET_POS".
BodyPos(p) ==
    IF AttrPacket(p.msg_head.msgbody_attr) = 1 THEN MSGBODY_PACKET_POS
    ELSE MSGBODY_NOPACKET_POS

Decoded(in, ret, p, reads, ub) ==
    [ret |-> ret, parse |-> p, reads |-> reads, ub |-> ub \/ OutOfRange(in, reads)]

\* 0x0001 and 0x8001: general response.
DecodeGeneralResponse(in, p, g) ==
    LET pos == MSGBODY_NOPACKET_POS
    IN  Decoded(in, 0,
                [p EXCEPT !.respone_flow_num = U16At(in, pos, g),
                          !.respone_msg_id = U16At(in, pos + 2, g),
                          !.respone_result = At(in, pos + 4, g)],
                Range(pos, 5), FALSE)

\* 0x0002, 0x0003, 0x8201: empty message body.
DecodeEmptyBody(in, p, g) == Decoded(in, 0, p, {}, FALSE)

\* 0x8003: fill packet request.
DecodeFillPacketRequest(in, p, g) ==
    LET msg_len == AttrMsgLen(p.msg_head.msgbody_attr)
        pos == BodyPos(p)
        first == U16At(in, pos, g)
        cnt == At(in, pos + 2, g)
        p1 == [p EXCEPT !.fill_packet.first_packet_msg_flow_num = first]
        ids == [i \in 1..cnt |->
                  (At(in, pos + 3 + (2 * (i - 1)), g)
                     + At(in, pos + 4 + (2 * (i - 1)), g)) % 65536]
    IN  IF msg_len - 3 # cnt * 2
        THEN Decoded(in, -1, p1, Range(pos, 3), FALSE)
        ELSE Decoded(in, 0, [p1 EXCEPT !.fill_packet.packet_id = ids],
                     Range(pos, 3 + (2 * cnt)), FALSE)

\* 0x0100: terminal registration.
DecodeTerminalRegister(in, p, g) ==
    LET pos == MSGBODY_NOPACKET_POS
        msg_len == AttrMsgLen(p.msg_head.msgbody_attr)
        model == UntilZero(Bytes(in, pos + 9, 20, g))
        tid == UntilZero(Bytes(in, pos + 29, 7, g))
        color == At(in, pos + 36, g)
        len == msg_len - 37
        r == p.register_info
        r1 == [r EXCEPT !.province_id = U16At(in, pos, g),
                        !.city_id = U16At(in, pos + 2, g),
                        !.manufacturer_id = Bytes(in, pos + 4, 5, g),
                        !.terminal_model = r.terminal_model \o model,
                        !.terminal_id = r.terminal_id \o tid,
                        !.car_plate_color = color]
        fixed == Range(pos, 9)
                   \cup Range(pos + 9, IF Len(model) < 20 THEN Len(model) + 1 ELSE 20)
                   \cup Range(pos + 29, IF Len(tid) < 7 THEN Len(tid) + 1 ELSE 7)
                   \cup {pos + 36}
    IN  IF color # kVin
        THEN Decoded(in, 0,
                     [p EXCEPT !.register_info =
                         [r1 EXCEPT !.car_plate_num = Bytes(in, pos + 37, len, g)]],
                     fixed \cup Range(pos + 37, len), len < 0)
        ELSE Decoded(in, 0, [p EXCEPT !.register_info = r1], fixed, FALSE)

\* 0x8100: terminal registration response.
DecodeTerminalRegisterResponse(in, p, g) ==
    LET pos == MSGBODY_NOPACKET_POS
        msg_len == AttrMsgLen(p.msg_head.msgbody_attr)
        result == At(in, pos + 2, g)
        p1 == [p EXCEPT !.respone_flow_num = U16At(in, pos, g),
                        !.respone_result = result]
    IN  IF result = 0
        THEN Decoded(in, 0,
                     [p1 EXCEPT !.authentication_code = Bytes(in, pos + 3, msg_len - 3, g)],
                     Range(pos, 3) \cup Range(pos + 3, msg_len - 3), msg_len < 3)
        ELSE Decoded(in, 0, p1, Range(pos, 3), FALSE)

\* 0x0102: terminal authentication.
DecodeTerminalAuthentication(in, p, g) ==
    LET pos == BodyPos(p)
        msg_len == AttrMsgLen(p.msg_head.msgbody_attr)
    IN  Decoded(in, 0, [p EXCEPT !.authentication_code = Bytes(in, pos, msg_len, g)],
                Range(pos, msg_len), FALSE)

\* memcpy of four bytes and EndianSwap32: the big-endian 32-bit value at pos.
U32At(in, pos, g) == (U16At(in, pos, g) * 65536) + U16At(in, pos + 2, g)

\* BcdToStringFillZero: two digits per byte, leading zeros kept; the caller
\* ignores its return value.
BcdToStringFillZero(bcd) ==
    [k \in 1..(2 * Len(bcd)) |->
        IF k % 2 = 1 THEN bcd[(k + 1) \div 2] \div 16 ELSE bcd[k \div 2] % 16]

\* 0x8103: set terminal parameters.
RECURSIVE TerminalParameterItems(_, _, _, _, _, _)
TerminalParameterItems(in, pos, left, paras, reads, g) ==
    IF left = 0 THEN [paras |-> paras, reads |-> reads]
    ELSE LET id == U32At(in, pos, g)
             len == At(in, pos + 4, g)
             value == Bytes(in, pos + 5, len, g)
         IN  TerminalParameterItems(in, pos + 5 + len, left - 1,
                                    MapInsert(paras, id, value).map,
                                    reads \cup Range(pos, 5 + len), g)

\* A decoder without paras.clear(): the items join those of earlier frames.
DecodeSetTerminalParametersNoClear(in, p, g) ==
    LET pos == BodyPos(p)
        msg_len == AttrMsgLen(p.msg_head.msgbody_attr)
        cnt == At(in, pos, g)
        items == TerminalParameterItems(in, pos + 1, cnt, p.terminal_parameters, {pos}, g)
    IN  IF msg_len < 1 THEN Decoded(in, -1, p, {}, FALSE)
        ELSE Decoded(in, 0, [p EXCEPT !.terminal_parameters = items.paras],
                     items.reads, FALSE)

DecodeSetTerminalParameters(in, p, g) ==
    LET pos == BodyPos(p)
        msg_len == AttrMsgLen(p.msg_head.msgbody_attr)
        cnt == At(in, pos, g)
        items == TerminalParameterItems(in, pos + 1, cnt, EmptyMap, {pos}, g)
    IN  IF msg_len < 1 THEN Decoded(in, -1, p, {}, FALSE)
        ELSE Decoded(in, 0, [p EXCEPT !.terminal_parameters = items.paras],
                     items.reads, FALSE)

\* The 28-byte basic block of 0x0200 and 0x0201 at pos.
LocationBasic(in, pos, g) ==
    [alarm |-> U32At(in, pos, g), status |-> U32At(in, pos + 4, g),
     latitude |-> U32At(in, pos + 8, g), longitude |-> U32At(in, pos + 12, g),
     altitude |-> U16At(in, pos + 16, g), speed |-> U16At(in, pos + 18, g),
     bearing |-> U16At(in, pos + 20, g),
     time |-> BcdToStringFillZero(Bytes(in, pos + 22, 6, g))]

\* The loop "while (pos <= end - 2)" over the additional information items of
\* 0x0200 and 0x0201.
RECURSIVE LocationItems(_, _, _, _, _, _)
LocationItems(in, pos, end, ext, reads, g) ==
    IF pos > end - 2 THEN [ret |-> 0, ext |-> ext, reads |-> reads]
    ELSE LET len == At(in, pos + 1, g)
         IN  IF pos + 1 + len > end
             THEN [ret |-> -1, ext |-> ext, reads |-> reads \cup {pos + 1}]
             ELSE LocationItems(in, pos + 2 + len, end,
                                MapPut(ext, At(in, pos, g), Bytes(in, pos + 2, len, g)),
                                reads \cup Range(pos, 2 + len), g)

\* 0x0200: location report.
DecodeLocationReport(in, p, g) ==
    LET msg_len == AttrMsgLen(p.msg_head.msgbody_attr)
        pos == BodyPos(p)
        p1 == [p EXCEPT !.location_info = LocationBasic(in, pos, g)]
        end == (msg_len + pos) % 256
        items == LocationItems(in, pos + 28, end, p.location_extension, Range(pos, 28), g)
    IN  IF msg_len < 28 THEN Decoded(in, -1, p, {}, FALSE)
        ELSE IF msg_len > 28
        THEN Decoded(in, items.ret, [p1 EXCEPT !.location_extension = items.ext],
                     items.reads, FALSE)
        ELSE Decoded(in, 0, p1, Range(pos, 28), FALSE)

\* 0x0201: location information query response.
DecodeLocationResponse(in, p, g) ==
    LET msg_len == AttrMsgLen(p.msg_head.msgbody_attr)
        pos0 == BodyPos(p)
        pos == pos0 + 2
        p1 == [p EXCEPT !.respone_flow_num = (At(in, pos0, g) * 256) + At(in, pos0, g),
                        !.location_info = LocationBasic(in, pos, g)]
        end == (msg_len + pos) % 256
        items == LocationItems(in, pos + 28, end, p.location_extension,
                               {pos0} \cup Range(pos, 28), g)
    IN  IF msg_len < 30 THEN Decoded(in, -1, p, {}, FALSE)
        ELSE Decoded(in, items.ret, [p1 EXCEPT !.location_extension = items.ext],
                     items.reads, FALSE)

\* PolygonArea::area_attribute bits.
AttrByTime(value) == value % 2
AttrSpeedLimit(value) == (value \div 2) % 2

\* The vertices at pos, pos + 8, ... below end.
RECURSIVE PolygonVertices(_, _, _, _)
PolygonVertices(in, pos, end, g) ==
    IF pos >= end THEN <<>>
    ELSE <<[latitude |-> U32At(in, pos, g), longitude |-> U32At(in, pos + 4, g)]>>
           \o PolygonVertices(in, pos + 8, end, g)

\* 0x8604: set polygon area.
DecodeSetPolygonArea(in, p, g) ==
    LET msg_len == AttrMsgLen(p.msg_head.msgbody_attr)
        pos0 == BodyPos(p)
        end == pos0 + msg_len
        attr == U16At(in, pos0 + 4, g)
        a1 == [p.polygon_area EXCEPT !.area_id = U32At(in, pos0, g),
                                     !.area_attribute = attr]
        pos1 == pos0 + 6
        byTime == AttrByTime(attr) = 1
        \* bcd.assign(in.begin() + pos, in.begin() + pos) is the empty range.
        a2 == IF byTime
              THEN [a1 EXCEPT !.start_time = BcdToStringFillZero(Bytes(in, pos1, 0, g)),
                              !.stop_time = BcdToStringFillZero(Bytes(in, pos1 + 6, 0, g))]
              ELSE a1
        pos2 == IF byTime THEN pos1 + 12 ELSE pos1
        limit == AttrSpeedLimit(attr) = 1
        a3 == IF limit
              THEN [a2 EXCEPT !.max_speed = U16At(in, pos2, g),
                              !.overspeed_time = At(in, pos2 + 2, g)]
              ELSE a2
        pos3 == IF limit THEN pos2 + 3 ELSE pos2
        cnt == U16At(in, pos3, g)
        pos4 == pos3 + 2
        fixed == Range(pos0, 6) \cup (IF limit THEN Range(pos2, 3) ELSE {})
                   \cup Range(pos3, 2)
    IN  IF msg_len < 28 THEN Decoded(in, -1, p, {}, FALSE)
        ELSE IF end - pos4 # cnt * 8
        THEN Decoded(in, -1, [p EXCEPT !.polygon_area = a3], fixed, FALSE)
        ELSE Decoded(in, 0,
                     [p EXCEPT !.polygon_area =
                         [a3 EXCEPT !.vertices = PolygonVertices(in, pos4, end, g)]],
                     fixed \cup Range(pos4, end - pos4), FALSE)

\* 0x0801: multimedia data upload.  With msg_len below 36 the range given to
\* media_data.assign has its end before its begin.
DecodeMultimediaDataUpload(in, p, g) ==
    LET msg_len == AttrMsgLen(p.msg_head.msgbody_attr)
        pos == BodyPos(p)
        media == [media_id |-> U32At(in, pos, g), media_type |-> At(in, pos + 4, g),
                  media_format |-> At(in, pos + 5, g),
                  media_event |-> At(in, pos + 6, g), channel_id |-> At(in, pos + 7, g),
                  loaction_report_body |-> Bytes(in, pos + 8, 28, g),
                  media_data |-> Bytes(in, pos + 36, msg_len - 36, g)]
    IN  Decoded(in, 0, [p EXCEPT !.multimedia_upload = media],
                Range(pos, 36) \cup Range(pos + 36, msg_len - 36), msg_len < 36)

\* The message IDs whose built-in decoder is modelled above.
ModelledIds ==
    {kTerminalGeneralResponse, kPlatformGeneralResponse, kTerminalHeartBeat,
     kFillPacketRequest, kTerminalRegister, kTerminalRegisterResponse,
     kTerminalLogOut, kTerminalAuthentication, kGetLocationInformation,
     kSetTerminalParameters, kLocationReport, kGetLocationInformationResponse,
     kSetPolygonArea, kMultimediaDataUpload}

\* it->second(out, para): the call of a registered handler.
CallHandler(h, in, p, g) ==
    IF h.kind = "custom" THEN Decoded(in, h.ret, p, {}, FALSE)
    ELSE IF h.id \in {kTerminalGeneralResponse, kPlatformGeneralResponse}
         THEN DecodeGeneralResponse(in, p, g)
    ELSE IF h.id = kFillPacketRequest THEN DecodeFillPacketRequest(in, p, g)
    ELSE IF h.id = kTerminalRegister THEN DecodeTerminalRegister(in, p, g)
    ELSE IF h.id = kTerminalRegisterResponse THEN DecodeTerminalRegisterResponse(in, p, g)
    ELSE IF h.id = kTerminalAuthentication THEN DecodeTerminalAuthentication(in, p, g)
    ELSE IF h.id = kSetTerminalParameters THEN DecodeSetTerminalParameters(in, p, g)
    ELSE IF h.id = kLocationReport THEN DecodeLocationReport(in, p, g)
    ELSE IF h.id = kGetLocationInformationResponse THEN DecodeLocationResponse(in, p, g)
    ELSE IF h.id = kSetPolygonArea THEN DecodeSetPolygonArea(in, p, g)
    ELSE IF h.id = kMultimediaDataUpload THEN DecodeMultimediaDataUpload(in, p, g)
    ELSE DecodeEmptyBody(in, p, g)

(***************************************************************************)
(* JT808FrameParse.                                                        *)
(***************************************************************************)
\* The name of the ParserError enumerator with value v (the std::error_code
\* a caller sees for a handler's return value v).
ErrorName(v) == CHOOSE n \in DOMAIN ParserError : ParserError[n] = v

\* What a call can do once it has left defined behaviour: the process is
\* killed ("abort"), or it runs on with the bytes it happened to read.
UBChoices == {"abort", "continue"}

\* The bytes an out-of-range read may yield in the model.
GarbageBytes == {0, 255}

ParseResult(ret, pa, out, invoked, reads, ub) ==
    [ret |-> ret, para |-> pa, out |-> out, invoked |-> invoked, reads |-> reads,
     ub |-> ub]

\* The least size of the unescaped frame for which &out[1], out.size() - 3
\* and *(out.end() - 2) are inside the buffer.
BccMinSize == 3

\* A checksum comparison that ignores the top bit of the two bytes.
ChecksumMatchesLow7(out) ==
    (BccCheckSum(Slice(out, 1, Len(out) - 3)) % 128) = (out[Len(out) - 1] % 128)

\* BccCheckSum(&(out[1]), out.size() - 3) == *(out.end() - 2), for a frame of
\* at least BccMinSize bytes.
ChecksumMatches(out) == BccCheckSum(Slice(out, 1, Len(out) - 3)) = out[Len(out) - 1]

JT808FrameParse(reg, in, isNull, pa, g, ubc) ==
    IF isNull THEN ParseResult("ParametersNull", pa, <<>>, <<>>, {}, FALSE)
    ELSE
    LET unesc == ReverseEscape(in)
        out == unesc.out
        n == Len(out)
    IN
    IF unesc.ret < 0 THEN ParseResult("UnesapingError", pa, <<>>, <<>>, {}, FALSE)
    ELSE IF n < BccMinSize
    THEN \* out.size() - 3 wraps around: the checksum runs over memory that is
         \* not the frame, then JT808FrameHeadParse rejects the size.
         ParseResult(IF ubc = "abort" THEN "Aborted"
                     ELSE IF g # 0 THEN "ChecksumError" ELSE "HeaderParseError",
                     pa, out, <<>>, {}, TRUE)
    ELSE IF ~ChecksumMatches(out)
    THEN ParseResult("ChecksumError", pa, out, <<>>, {}, FALSE)
    ELSE
    LET head == JT808FrameHeadParse(out, pa.parse.msg_head)
        pa1 == [pa EXCEPT !.parse.msg_head = head.head]
    IN
    IF head.ret # 0 THEN ParseResult("HeaderParseError", pa1, out, <<>>, {}, FALSE)
    ELSE
    LET pa2 == [pa1 EXCEPT !.msg_head.phone_num = pa1.parse.msg_head.phone_num]
        id == pa2.parse.msg_head.msg_id
    IN
    IF id \notin DOMAIN reg
    THEN ParseResult("UnregisteredMessageParser", pa2, out, <<>>, {}, FALSE)
    ELSE
    LET d == CallHandler(reg[id], out, pa2.parse, g)
        pa3 == [pa2 EXCEPT !.parse = d.parse]
        inv == <<[msg_id |-> id, handler |-> reg[id], ret |-> d.ret]>>
    IN  ParseResult(IF d.ub /\ ubc = "abort" THEN "Aborted" ELSE ErrorName(d.ret),
                    pa3, out, inv, d.reads, d.ub)

(***************************************************************************)
(* Frames on the wire: what a peer can send.                               *)
(***************************************************************************)
Hi(x) == x \div 256
Lo(x) == x % 256

\* header || [total, seq] || body, before the checksum is appended.
Interior(msg_id, attr, phone, flow, seg, body) ==
    <<Hi(msg_id), Lo(msg_id), Hi(attr), Lo(attr)>> \o phone
        \o <<Hi(flow), Lo(flow)>> \o seg \o body

\* The unescaped frame 7E | interior | xor | 7E.
Framed(interior) ==
    <<PROTOCOL_SIGN>> \o interior \o <<BccCheckSum(interior)>> \o <<PROTOCOL_SIGN>>

\* The frame as sent: the bytes between the flags are escaped.
Wire(frame) ==
    IF Len(frame) < 2 THEN frame
    ELSE <<frame[1]>> \o Escape(SubSeq(frame, 2, Len(frame) - 1)) \o <<frame[Len(frame)]>>

\* s with the byte at C++ index i replaced by v.
Replace(s, i, v) == [s EXCEPT ![i + 1] = v]

\* Phone numbers as BCD[6]: 013523339527, and one with a nibble that is no digit.
PhoneBcd == <<1, 53, 35, 51, 149, 39>>
BadPhoneBcd == <<1, 53, 35, 51, 149, 127>>
OtherPhoneBcd == <<1, 56, 0, 0, 0, 0>>
\* "13523339527" as the caller of the examples sets it in the send view.
SendPhone == <<1, 3, 5, 2, 3, 3, 3, 9, 5, 2, 7>>

\* A message ID no decoder is registered for, and the two IDs the caller
\* appended handlers for.
UnregisteredId == 2457
CustomOkId == kVersionInformation
CustomFailId == kBatchLocationReport

\* total_packet = 3, packet_seq = 2.
SegBytes == <<0, 3, 0, 2>>

\* Message bodies.
GeneralBody == <<0, 7, 0, 2, 0>>
FillBody1 == <<1, 2, 1, 1, 2>>
FillBody2 == <<0, 9, 2, 125, 126, 0, 5>>
FillBodyShort == <<0, 9, 2, 1, 2>>
RegisterFixed ==
    <<0, 44, 1, 47>> \o <<65, 66, 67, 68, 69>>
      \o <<77, 49>> \o [k \in 1..18 |-> 0] \o <<84, 49, 50>> \o [k \in 1..4 |-> 0]
RegisterBodies ==
    {RegisterFixed \o <<kVin>>, RegisterFixed \o <<1, 80, 49>>,
     RegisterFixed \o <<2, 81>>}
RegisterResponseBodies == {<<0, 7, 0, 97, 98>>, <<0, 7, 1>>, <<0, 8, 0>>}

\* A frame whose attribute word states the packet bit and the body length
\* given, with or without the four segmentation bytes.
FrameOf(msg_id, packet, msglen, phone, flow, seg, body) ==
    Framed(Interior(msg_id, MakeAttr(packet, 0, msglen), phone, flow, seg, body))

\* Frames whose header varies: packet bit, segmentation bytes and declared
\* body length, consistent with the frame or not.
HeaderFrames ==
    {FrameOf(id, packet, msglen, PhoneBcd, 1, seg, body) :
        id \in {kTerminalHeartBeat, UnregisteredId}, packet \in {0, 1},
        msglen \in {0, 5, 6}, seg \in {<<>>, SegBytes}, body \in {<<>>, GeneralBody}}

\* Frames for every way the dispatch can go.
DispatchFrames ==
    {FrameOf(id, 0, Len(GeneralBody), phone, flow, <<>>, GeneralBody) :
        id \in {kTerminalGeneralResponse, kTerminalHeartBeat, kFillPacketRequest,
                CustomOkId, CustomFailId, UnregisteredId},
        phone \in {PhoneBcd, OtherPhoneBcd, BadPhoneBcd}, flow \in {1, 32126}}

\* Well-formed frames of the modelled messages, unsegmented and segmented.
BodyFrames ==
    LET Both(id, body) ==
            {FrameOf(id, 0, Len(body), PhoneBcd, 1, <<>>, body),
             FrameOf(id, 1, Len(body), PhoneBcd, 1, SegBytes, body)}
    IN  UNION ({Both(id, GeneralBody) :
                   id \in {kTerminalGeneralResponse, kPlatformGeneralResponse}}
               \cup {Both(kFillPacketRequest, b) : b \in {FillBody1, FillBody2, FillBodyShort}}
               \cup {Both(kTerminalRegister, b) : b \in RegisterBodies}
               \cup {Both(kTerminalRegisterResponse, b) : b \in RegisterResponseBodies}
               \cup {Both(kTerminalAuthentication, <<97, 98>>)})

\* Frames that pass the header decoder with less body than the decoder of
\* their message takes: a multimedia upload of 8 body bytes, and terminal
\* parameters with a count of 2 and one item.
OverreadFrames ==
    {FrameOf(kMultimediaDataUpload, 0, 8, PhoneBcd, 1, <<>>, <<0, 0, 0, 5, 0, 0, 1, 2>>),
     FrameOf(kSetTerminalParameters, 0, 8, PhoneBcd, 1, <<>>, <<2, 0, 0, 0, 1, 2, 97, 98>>)}

\* Frames shorter than the 15 bytes of an empty message, with the checksum
\* the sender would compute where there is room for one.
ShortFrames ==
    {<<>>, <<PROTOCOL_SIGN>>, <<PROTOCOL_SIGN, PROTOCOL_SIGN>>,
     <<PROTOCOL_SIGN, 0, PROTOCOL_SIGN>>, <<PROTOCOL_SIGN, 5, PROTOCOL_SIGN>>,
     Framed(<<0, 2>>), Framed(<<0, 2, 0, 0, 1, 53>>),
     Framed(<<0, 2, 0, 0, 1, 53, 35, 51, 149, 39, 0>>),
     Framed(<<0, 1, 0, 5, 1, 53, 35, 51, 149, 39, 0, 1>>)}

\* A frame with a wrong checksum byte.
BadChecksum(frame) ==
    Replace(frame, Len(frame) - 2, (frame[Len(frame) - 1] + 1) % 256)

AllFrames ==
    HeaderFrames \cup DispatchFrames \cup BodyFrames \cup ShortFrames \cup OverreadFrames

\* Byte sequences that are no escaped payload: 7D followed by neither 01
\* nor 02, and 7D as the last byte.
MalformedInputs ==
    {<<PROTOCOL_SIGN, 0, 2, PROTOCOL_ESCAPE, 5, 0, PROTOCOL_SIGN>>,
     <<PROTOCOL_SIGN, 0, 2, 0, PROTOCOL_ESCAPE, PROTOCOL_SIGN>>,
     <<PROTOCOL_SIGN, 0, 2, 0, PROTOCOL_ESCAPE>>,
     <<PROTOCOL_ESCAPE>>}

\* What JT808FrameParse is called with.
WireInputs ==
    {Wire(f) : f \in AllFrames}
      \cup {Wire(BadChecksum(f)) : f \in {g \in DispatchFrames \cup ShortFrames : Len(g) >= 3}}
      \cup MalformedInputs

(***************************************************************************)
(* JT808Server::UpgradeRequest.  The file is its length: a chunk is the    *)
(* range of file offsets it holds.                                         *)
(***************************************************************************)
\* No upgrade requested yet.  frames lists what PackagingAndSendMessage was
\* given: the header fields and the chunk of each Terminal Upgrade message;
\* acks lists what ReceiveAndParseMessage received after each of them and
\* whether UpgradeRequest went on after it.
NoUpgrade ==
    [pc |-> "idle", length |-> 0, version_len |-> 0, max_content |-> 0, i |-> 0,
     packet |-> 0, total_packet |-> 0, packet_seq |-> 0, msg_flow_num |-> 1,
     data_off |-> 0, data_len |-> 0, ub |-> FALSE, ret |-> 0, frames |-> <<>>,
     socket |-> 0, acks |-> <<>>]

(***************************************************************************)
(* JT808Client: polygon_areas_, a std::map from area ID to PolygonArea.    *)
(***************************************************************************)
\* No call made yet.  A call records its operation and arguments, the set
\* before it, what it returned, the caller's PolygonArea object after it,
\* whether it read through an iterator that points at no element and
\* whether the process died there.
NoAreaCall ==
    [op |-> "none", id |-> 0, isNull |-> FALSE, ret |-> 0, out |-> ZeroPolygonArea,
     pre |-> EmptyMap, readEnd |-> FALSE, aborted |-> FALSE]

NoClient == [polygon_areas |-> EmptyMap, call |-> NoAreaCall, ncalls |-> 0]

\* if (area == nullptr || polygon_areas_.empty()) return -1;
\* it = find(id); if (it != end()) return -1; *area = it->second; return 0;
\* The copy is reached only with it == end(): what it->second yields there is
\* stray, one of the areas of strays.
GetPolygonAreaByID(areas, id, isNull, out, stray) ==
    IF isNull \/ DOMAIN areas = {}
    THEN [ret |-> -1, out |-> out, readEnd |-> FALSE]
    ELSE IF id \in DOMAIN areas
    THEN [ret |-> -1, out |-> out, readEnd |-> FALSE]
    ELSE [ret |-> 0, out |-> stray, readEnd |-> TRUE]

\* polygon_areas_.insert(std::make_pair(id, area)).second - 1.
AddPolygonArea(areas, area) ==
    IF area.area_id \in DOMAIN areas THEN [map |-> areas, ret |-> -1]
    ELSE [map |-> MapPut(areas, area.area_id, area), ret |-> 0]

\* polygon_areas_[id] = area.
UpdatePolygonArea(areas, area) == MapPut(areas, area.area_id, area)

\* it = find(id); if (it != end()) erase(it).
DeletePolygonAreaByID(areas, id) == [k \in DOMAIN areas \ {id} |-> areas[k]]

(***************************************************************************)
(* JT808Server: the state shared by its threads.                           *)
(***************************************************************************)
\* No ReceiveAndParseMessage call made yet.  A call records its socket, the
\* bytes Recv gave (none on a timeout or a disconnect), what JT808FrameParse
\* reported for them and the value returned.
NoReceive == [socket |-> 0, msg |-> <<>>, parsed |-> "none", ret |-> 0]

\* The waiting thread before Accept, with no connection in hand.
NoWait == [pc |-> "accept", socket |-> 0, para |-> ZeroPara]

\* The service thread between two rounds over clients_: data_buffer is null
\* (size -1), copy is the last memcpy into it, recv its last Recv: the socket
\* and whether UpgradeRequest was exchanging messages on it then.
NoCopy == [socket |-> 0, allocated |-> -1, offset |-> 0, size |-> 0]
NoService ==
    [pc |-> "idle", socket |-> 0, data_buffer |-> -1, owner |-> 0,
     packet_max_size |-> 0, total_size |-> 0, copy |-> NoCopy,
     recv |-> [socket |-> 0, upgrading |-> FALSE], nrecv |-> 0]

\* JT808Server after Init(): clients_ and is_upgrading_clients_ are empty.
\* handshake lists, per socket, the steps WaitHandler completed with it;
\* freed holds the ProtocolParameter of each entry erased from clients_, as
\* the memory a reference to it still points at.
NoServer ==
    [clients |-> EmptyMap, upgrading |-> {}, recv |-> NoReceive, wait |-> NoWait,
     service |-> NoService, handshake |-> EmptyMap, sockets |-> 0, freed |-> EmptyMap]

\* clients_.erase(s).
EraseClient(srv, s) ==
    [srv EXCEPT !.clients = [k \in DOMAIN @ \ {s} |-> @[k]],
                !.freed = MapPut(@, s, srv.clients[s])]

\* "auto& para = clients_[socket]" as UpgradeRequest sees it later: the
\* entry, or the erased entry's memory when the service thread erased it.
Dangling(srv, s) == s \notin DOMAIN srv.clients
ReferredPara(srv, s) == IF Dangling(srv, s) THEN srv.freed[s] ELSE srv.clients[s]
WithReferredPara(srv, s, p) ==
    IF Dangling(srv, s) THEN [srv EXCEPT !.freed[s] = p]
    ELSE [srv EXCEPT !.clients[s] = p]

\* ReceiveAndParseMessage(socket, timeout, &pa) when Recv gives msg: -2 when
\* nothing arrived, -1 when JT808FrameParse(...) == -1, else 0.
ReceiveAndParseMessage(reg, msg, pa, g, ubc) ==
    IF msg = <<>> THEN [ret |-> -2, para |-> pa, parsed |-> "none", ub |-> FALSE]
    ELSE LET r == JT808FrameParse(reg, msg, FALSE, pa, g, ubc)
         IN  [ret |-> IF r.ret = "MiscError" THEN -1 ELSE 0,
              para |-> r.para, parsed |-> r.ret, ub |-> r.ub]

\* Every result ReceiveAndParseMessage can give for one of msgs.
ReceiveResults(reg, msgs, pa) ==
    {[msg |-> msg, r |-> ReceiveAndParseMessage(reg, msg, pa, g, ubc)] :
        msg \in msgs, g \in GarbageBytes, ubc \in UBChoices}

\* PackagingAndSendMessage(socket, msg_id, &pa): JT808FramePackage fails (-1,
\* flow number kept), or the flow number is incremented and Send fails (-2)
\* or succeeds (0).
SendOutcomes == {"sent", "package_failed", "send_failed"}

\* Which send of a handler fails (none: 0), and how.
SendFailures ==
    {<<0, "sent">>} \cup {<<k, how>> : k \in 1..3, how \in SendOutcomes \ {"sent"}}
PackagingAndSendMessage(msg_id, pa, outcome) ==
    LET pa1 == [pa EXCEPT !.msg_head.msg_id = msg_id]
        pa2 == [pa1 EXCEPT !.msg_head.msg_flow_num = (@ + 1) % 65536]
    IN  IF outcome = "package_failed" THEN [ret |-> -1, para |-> pa1]
        ELSE IF outcome = "send_failed" THEN [ret |-> -2, para |-> pa2]
        ELSE [ret |-> 0, para |-> pa2]

(***************************************************************************)
(* The state machine.                                                      *)
(***************************************************************************)
NoRegistryCall ==
    [op |-> "none", isNull |-> FALSE, msg_id |-> 0, handler |-> BuiltinHandler(0),
     ret |-> FALSE, pre |-> EmptyParser]

NoParseCall ==
    [op |-> "none", src |-> "none", in |-> <<>>, isNull |-> FALSE, base |-> <<>>,
     idx |-> 0, ret |-> "none", out |-> <<>>, invoked |-> <<>>, reads |-> {},
     ub |-> FALSE, pre |-> ZeroPara]

\* The registry of a program that called JT808FrameParserInit and appended
\* its own two handlers.
ParseRegistry ==
    LET r0 == JT808FrameParserInit(EmptyParser)
        r1 == JT808FrameParserAppend(FALSE, r0, CustomOkId,
                                     [kind |-> "custom", id |-> 1, ret |-> 0]).map
    IN  JT808FrameParserAppend(FALSE, r1, CustomFailId,
                               [kind |-> "custom", id |-> 2, ret |-> -1]).map

\* ProtocolParameter para {} with the send view's phone number and flow
\* number set, as the examples do before the first call; one of them has
\* already parsed a segmented fill packet request.
StartParas ==
    LET fresh(ph) == [ZeroPara EXCEPT !.msg_head.phone_num = ph,
                                      !.msg_head.msg_flow_num = 1]
        earlier == Wire(FrameOf(kFillPacketRequest, 1, 7, OtherPhoneBcd, 9, SegBytes,
                                FillBody2))
    IN  {fresh(SendPhone), fresh(<<0>> \o SendPhone),
         JT808FrameParse(ParseRegistry, earlier, FALSE, fresh(SendPhone), 0,
                         "continue").para}

Init ==
    /\ parser = ParseRegistry
    /\ para \in StartParas
    /\ rcall = NoRegistryCall
    /\ pcall = NoParseCall
    /\ ncalls = 0
    /\ upg = NoUpgrade
    /\ server = NoServer
    /\ client = NoClient

\* The state after a call that gave r.
Called(in, isNull, src, base, idx, r) ==
    /\ para' = r.para
    /\ pcall' = [op |-> "Parse", src |-> src, in |-> in, isNull |-> isNull,
                 base |-> base, idx |-> idx, ret |-> r.ret, out |-> r.out,
                 invoked |-> r.invoked, reads |-> r.reads, ub |-> r.ub, pre |-> para]
    /\ ncalls' = ncalls + 1
    /\ UNCHANGED <<parser, rcall, upg, server, client>>

\* One call JT808FrameParse(parser, in, isNull ? nullptr : &para).  A call
\* that leaves defined behaviour has one outcome per choice of UBChoices and
\* of the bytes it read out of range.
DoParse(in, isNull, src, base, idx) ==
    LET r0 == JT808FrameParse(parser, in, isNull, para, 0, "continue")
    IN  IF ~r0.ub THEN Called(in, isNull, src, base, idx, r0)
        ELSE \E g \in GarbageBytes, ubc \in UBChoices :
                Called(in, isNull, src, base, idx,
                       JT808FrameParse(parser, in, isNull, para, g, ubc))

\* The inputs that are also tried with a null ProtocolParameter pointer.
NullProbes ==
    MalformedInputs
      \cup {Wire(f) : f \in {FrameOf(kTerminalHeartBeat, 0, 0, PhoneBcd, 1, <<>>, <<>>),
                             <<PROTOCOL_SIGN, PROTOCOL_SIGN>>,
                             BadChecksum(Framed(<<0, 2>>))}}

\* The caller parses what it received.
ParseFrame ==
    /\ ncalls < MaxCalls
    /\ \E in \in WireInputs :
         \E isNull \in (IF in \in NullProbes THEN BOOLEAN ELSE {FALSE}) :
            DoParse(in, isNull, "frame", <<>>, 0)

\* Has JT808FrameParse got past the checksum comparison for this input?
PassesChecksum(in) ==
    LET u == ReverseEscape(in)
    IN  u.ret = 0 /\ Len(u.out) >= BccMinSize /\ ChecksumMatches(u.out)

\* The frames of which one byte gets replaced, and the values it gets.
ReplaceBases ==
    {FrameOf(kTerminalHeartBeat, 0, 0, PhoneBcd, 1, <<>>, <<>>),
     FrameOf(kFillPacketRequest, 1, 7, PhoneBcd, 32126, SegBytes, FillBody2),
     Framed(<<0, 2>>),
     BadChecksum(FrameOf(kTerminalHeartBeat, 0, 0, PhoneBcd, 1, <<>>, <<>>))}
ReplacementValues(old) ==
    {PROTOCOL_ESCAPE, (old + 1) % 256, Xor8(old, 128)} \ {old}

\* The caller parses a frame that passes the checksum, after one byte of
\* msg_id .. last body byte was replaced on the way.
ParseReplaced ==
    /\ ncalls < MaxCalls
    /\ \E base \in ReplaceBases :
         /\ PassesChecksum(Wire(base))
         /\ \E idx \in 1 .. (Len(base) - 3) :
              \E v \in ReplacementValues(base[idx + 1]) :
                 DoParse(Wire(Replace(base, idx, v)), FALSE, "replaced", base, idx)

Next == ParseFrame \/ ParseReplaced

Spec == Init /\ [][Next]_vars

(***************************************************************************)
(* The registry on its own: JT808FrameParserInit, Append and Override in   *)
(* any order on a registry that starts empty.                              *)
(***************************************************************************)
RegistryIds == {kTerminalHeartBeat, kTerminalGeneralResponse, CustomOkId, CustomFailId}

InitRegistry ==
    /\ parser = EmptyParser
    /\ para = ZeroPara
    /\ rcall = NoRegistryCall
    /\ pcall = NoParseCall
    /\ ncalls = 0
    /\ upg = NoUpgrade
    /\ server = NoServer
    /\ client = NoClient

ParserInit ==
    /\ parser' = JT808FrameParserInit(parser)
    /\ rcall' = [op |-> "Init", isNull |-> FALSE, msg_id |-> 0,
                 handler |-> BuiltinHandler(0), ret |-> TRUE, pre |-> parser]
    /\ UNCHANGED <<para, pcall, ncalls, upg, server, client>>

ParserAppend ==
    \E isNull \in BOOLEAN, id \in RegistryIds, h \in CustomHandlers :
       LET r == JT808FrameParserAppend(isNull, parser, id, h)
       IN  /\ parser' = r.map
           /\ rcall' = [op |-> "Append", isNull |-> isNull, msg_id |-> id,
                        handler |-> h, ret |-> r.second, pre |-> parser]
           /\ UNCHANGED <<para, pcall, ncalls, upg, server, client>>

ParserOverride ==
    \E isNull \in BOOLEAN, id \in RegistryIds, h \in CustomHandlers :
       LET r == JT808FrameParserOverride(isNull, parser, id, h)
       IN  /\ parser' = r.map
           /\ rcall' = [op |-> "Override", isNull |-> isNull, msg_id |-> id,
                        handler |-> h, ret |-> r.second, pre |-> parser]
           /\ UNCHANGED <<para, pcall, ncalls, upg, server, client>>

NextRegistry == ParserInit \/ ParserAppend \/ ParserOverride

SpecRegistry == InitRegistry /\ [][NextRegistry]_vars

(***************************************************************************)
(* Message bodies parsed one after another on the same ProtocolParameter.  *)
(***************************************************************************)
MaxParses == 2

Zeros(n) == [k \in 1..n |-> 0]

\* The basic block: alarm 1, status 2, latitude 0x01020304, longitude
\* 0x05060708, altitude 9, speed 10, bearing 11, time 20 01 02 03 04 05 (BCD).
LocBlock ==
    <<0, 0, 0, 1>> \o <<0, 0, 0, 2>> \o <<1, 2, 3, 4>> \o <<5, 6, 7, 8>>
      \o <<0, 9>> \o <<0, 10>> \o <<0, 11>> \o <<32, 1, 2, 3, 4, 5>>

\* Additional information items: complete ones, one whose length byte is one
\* more and one three more than the bytes after it, and a long one.
ExtA == <<1, 4, 0, 0, 0, 9>>
ExtB == <<2, 2, 0, 5>>
ExtOneOver == <<1, 3, 0, 0>>
ExtThreeOver == <<1, 5, 0, 0>>
ExtLongOver == <<1, 250>> \o Zeros(222)

\* Complete items that make the body 243 and 300 bytes long.
ExtLong == <<1, 213>> \o Zeros(213)
ExtTwoLong == (<<3, 100>> \o Zeros(100)) \o (<<4, 168>> \o Zeros(168))

LocationTails ==
    {<<>>, ExtA, ExtA \o ExtB, ExtOneOver, ExtThreeOver, ExtLongOver, ExtLong, ExtTwoLong}
ResponseTails == {<<>>, ExtA, ExtA \o ExtB}

LocationFrames ==
    {FrameOf(kLocationReport, 0, 28 + Len(t), PhoneBcd, 1, <<>>, LocBlock \o t) :
        t \in LocationTails}
      \cup {FrameOf(kLocationReport, 1, 28 + Len(ExtA), PhoneBcd, 1, SegBytes,
                    LocBlock \o ExtA)}
      \cup {FrameOf(kGetLocationInformationResponse, 0, 30 + Len(t), PhoneBcd, 1, <<>>,
                    <<0, 7>> \o LocBlock \o t) : t \in ResponseTails}
      \cup {FrameOf(kGetLocationInformationResponse, 1, 30 + Len(ExtA), PhoneBcd, 1,
                    SegBytes, <<7, 7>> \o LocBlock \o ExtA)}

RegisterFrames ==
    {FrameOf(kTerminalRegister, 0, Len(b), PhoneBcd, 1, <<>>, b) : b \in RegisterBodies}
      \cup {FrameOf(kTerminalRegisterResponse, 0, Len(b), PhoneBcd, 1, <<>>, b) :
               b \in RegisterResponseBodies}

\* Set terminal parameters: {0xF020 -> "192.168.3.111"}, two items, no item.
ParamIp == <<0, 0, 240, 32, 13>> \o <<49, 57, 50, 46, 49, 54, 56, 46, 51, 46, 49, 49, 49>>
ParamBodies ==
    {<<1>> \o ParamIp,
     <<2>> \o <<0, 0, 0, 1, 4, 0, 0, 0, 60>> \o <<0, 0, 0, 19, 2, 97, 98>>,
     <<0>>}
ParamFrames ==
    {FrameOf(kSetTerminalParameters, 0, Len(b), PhoneBcd, 1, <<>>, b) : b \in ParamBodies}
      \cup {FrameOf(kSetTerminalParameters, 1, Len(<<1>> \o ParamIp), PhoneBcd, 1,
                    SegBytes, <<1>> \o ParamIp)}

\* Set polygon area: area 7, attribute with by_time (bit 0) and speed_limit
\* (bit 1) set or clear, start 20 01 02 03 04 05 and stop 21 01 02 03 04 05
\* (BCD), max speed 80 for 10 s, three vertices.
PolyTimes == <<32, 1, 2, 3, 4, 5>> \o <<33, 1, 2, 3, 4, 5>>
PolyVertices == <<0, 3>> \o <<1, 2, 3, 4, 5, 6, 7, 8>> \o <<1, 2, 3, 5, 5, 6, 7, 9>>
                   \o <<1, 2, 3, 6, 5, 6, 7, 10>>
PolygonBodies ==
    {<<0, 0, 0, 7>> \o <<0, byTime + (2 * limit)>>
        \o (IF byTime = 1 THEN PolyTimes ELSE <<>>)
        \o (IF limit = 1 THEN <<0, 80, 10>> ELSE <<>>) \o PolyVertices :
        byTime \in {0, 1}, limit \in {0, 1}}
PolygonFrames ==
    {FrameOf(kSetPolygonArea, 0, Len(b), PhoneBcd, 1, <<>>, b) : b \in PolygonBodies}

BodyInputs ==
    {Wire(f) : f \in LocationFrames \cup RegisterFrames \cup ParamFrames \cup PolygonFrames}

InitBodies ==
    /\ parser = ParseRegistry
    /\ para = [ZeroPara EXCEPT !.msg_head.phone_num = SendPhone,
                               !.msg_head.msg_flow_num = 1,
                               !.terminal_parameters = MapPut(EmptyMap, 61472, <<49>>)]
    /\ rcall = NoRegistryCall
    /\ pcall = NoParseCall
    /\ ncalls = 0
    /\ upg = NoUpgrade
    /\ server = NoServer
    /\ client = NoClient

\* The caller parses the next frame it received into the same para.
ParseBody ==
    /\ ncalls < MaxParses
    /\ \E in \in BodyInputs : DoParse(in, FALSE, "body", <<>>, 0)

NextBodies == ParseBody

SpecBodies == InitBodies /\ [][NextBodies]_vars

(***************************************************************************)
(* JT808Server::UpgradeRequest, one step per blocking call: the request up *)
(* to its first message, PackagingAndSendMessage, ReceiveAndParseMessage.  *)
(***************************************************************************)
\* Terminal Upgrade messages sent per behaviour.
MaxSegments == 4

\* version_id.size() of the request.
VersionLengths == {0, 5, 255}

\* File lengths around the segment size max, and files of 65535 segments
\* and more.
FileLengths(max) ==
    {0, 1, max - 2, max, max + 1, 2 * max, (2 * max) + 1, 3000, (3 * max) + 7,
     65535 * max, 65536 * max, (65536 * max) + 1}

\* ceil(length * 1.0 / max_content).
CeilDiv(a, b) == (a + b - 1) \div b

\* static_cast<uint16_t> of a double: the value when it fits; outside the
\* range of uint16_t the conversion is undefined, it wraps or saturates.
CastU16(n) == IF n < 65536 THEN {n} ELSE {n % 65536, 65535}

\* GeneralResponseResult::kSuccess and RegisterResponseResult::kRegisterSuccess.
kSuccess == 0
kRegisterSuccess == 0

\* parser_ after JT808Server::Init().
ServerRegistry == JT808FrameParserInit(EmptyParser)

\* What the terminal side of a connection can send.
RegisterFrame ==
    FrameOf(kTerminalRegister, 0, Len(RegisterFixed) + 3, PhoneBcd, 1, <<>>,
            RegisterFixed \o <<1, 80, 49>>)
AuthenticationFrame(code) ==
    FrameOf(kTerminalAuthentication, 0, Len(code), PhoneBcd, 2, <<>>, code)
ResponseFrame(msg_id, respone_msg_id, result) ==
    FrameOf(msg_id, 0, 5, PhoneBcd, 3, <<>>,
            <<0, 1, Hi(respone_msg_id), Lo(respone_msg_id), result>>)
HeartBeatFrame == FrameOf(kTerminalHeartBeat, 0, 0, PhoneBcd, 3, <<>>, <<>>)

\* The authentication code of a connected client: the digits of rand().
AuthCode == <<52, 50>>

\* The para WaitHandler inserts into clients_ for a terminal that registered
\* and authenticated with code.
\* (RegisterFrame and AuthenticationFrame(code) parsed into it, the register
\* response and the platform general response packaged from it.)
HandshakenPara(code) ==
    LET phone_num == <<0, 1, 3, 5, 2, 3, 3, 3, 9, 5, 2, 7>>
    IN  [ZeroPara EXCEPT
           !.respone_result = kSuccess,
           !.authentication_code = code,
           !.msg_head.msg_id = kPlatformGeneralResponse,
           !.msg_head.phone_num = phone_num,
           !.msg_head.msg_flow_num = 2,
           !.parse.msg_head.msg_id = kTerminalAuthentication,
           !.parse.msg_head.msgbody_attr = Len(code),
           !.parse.msg_head.phone_num = phone_num,
           !.parse.msg_head.msg_flow_num = 2,
           !.parse.register_info =
              [province_id |-> 44, city_id |-> 303,
               manufacturer_id |-> <<65, 66, 67, 68, 69>>,
               terminal_model |-> <<77, 49>>, terminal_id |-> <<84, 49, 50>>,
               car_plate_color |-> 1, car_plate_num |-> <<80, 49>>],
           !.parse.authentication_code = code]

\* The steps of WaitHandler with a socket, in order.
FullHandshake(code) ==
    <<[step |-> "register_received", code |-> <<>>],
      [step |-> "register_response_sent", code |-> code],
      [step |-> "authentication_received", code |-> code],
      [step |-> "general_response_sent", code |-> <<>>]>>

\* What arrives while UpgradeRequest waits for an acknowledgement: nothing,
\* the terminal's general response to 0x8108 with success or failure, the
\* same with a damaged checksum, a general response to another message, a
\* platform general response, a heartbeat, a message without a decoder and a
\* location report too short for its decoder.
AckInputs ==
    {<<>>}
      \cup {Wire(f) : f \in
              {ResponseFrame(kTerminalGeneralResponse, kTerminalUpgrade, kSuccess),
               ResponseFrame(kTerminalGeneralResponse, kTerminalUpgrade, 1),
               BadChecksum(ResponseFrame(kTerminalGeneralResponse, kTerminalUpgrade, 1)),
               ResponseFrame(kTerminalGeneralResponse, kSetTerminalParameters, kSuccess),
               ResponseFrame(kPlatformGeneralResponse, kTerminalUpgrade, kSuccess),
               HeartBeatFrame,
               FrameOf(UnregisteredId, 0, 0, PhoneBcd, 3, <<>>, <<>>),
               FrameOf(kLocationReport, 0, 5, PhoneBcd, 3, <<>>, GeneralBody)}}

\* The sockets UpgradeRequest is called with: a connected client's, and one
\* that is not in clients_.
UpgradeSockets == {1, 2}

InitUpgrade ==
    /\ parser = ServerRegistry
    /\ para = ZeroPara
    /\ rcall = NoRegistryCall
    /\ pcall = NoParseCall
    /\ ncalls = 0
    /\ upg = NoUpgrade
    /\ server = [NoServer EXCEPT !.clients = MapPut(EmptyMap, 1, HandshakenPara(AuthCode)),
                                 !.handshake = MapPut(EmptyMap, 1, FullHandshake(AuthCode)),
                                 !.sockets = 1]
    /\ client = NoClient

\* UpgradeRequest(socket, ...) up to the first message: the file is opened and
\* read, the socket entered into is_upgrading_clients_, para bound to
\* clients_[socket] (which inserts a ProtocolParameter {} for a socket that
\* is not in the map), max_content computed and, for a file longer than
\* that, the segmentation fields set.
UpgradeStart(socket, vlen, length, opened) ==
    LET max == (1023 - 9 - vlen) % 65536
        clients == IF socket \in DOMAIN server.clients THEN server.clients
                   ELSE MapPut(server.clients, socket, ZeroPara)
        u0 == [upg EXCEPT !.socket = socket, !.length = length, !.version_len = vlen,
                          !.max_content = max,
                          !.msg_flow_num = clients[socket].msg_head.msg_flow_num]
    IN  /\ upg.pc = "idle"
        /\ IF ~opened
           THEN /\ upg' = [upg EXCEPT !.pc = "failed", !.ret = -1, !.socket = socket]
                /\ UNCHANGED server
           ELSE /\ server' = [server EXCEPT !.upgrading = @ \cup {socket},
                                            !.clients = clients]
                /\ IF length > max
                   THEN \E total \in CastU16(CeilDiv(length, max)) :
                          upg' = [u0 EXCEPT !.pc = "loop", !.packet = 1,
                                            !.total_packet = total, !.packet_seq = 1,
                                            !.i = 0,
                                            !.ub = CeilDiv(length, max) > 65535]
                   ELSE upg' = [u0 EXCEPT !.pc = "single"]
        /\ UNCHANGED <<parser, para, rcall, pcall, ncalls, client>>

UpgradeBegin ==
    \E socket \in UpgradeSockets, vlen \in VersionLengths, opened \in BOOLEAN :
       \E length \in FileLengths((1023 - 9 - vlen) % 65536) :
          UpgradeStart(socket, vlen, length, opened)

\* The next chunk is put into para.upgrade_info.upgrade_data and
\* PackagingAndSendMessage(socket, kTerminalUpgrade, &para) is called: the
\* packager fails, or the flow number is incremented and Send succeeds or
\* fails.  A failure takes the socket out of is_upgrading_clients_.
UpgradeSend ==
    /\ upg.pc \in {"loop", "single"}
    /\ Len(upg.frames) < MaxSegments
    /\ LET left == upg.length - upg.i
           len == IF upg.pc = "single" THEN upg.length
                  ELSE IF left > upg.max_content THEN upg.max_content ELSE left
           off == IF upg.pc = "single" THEN 0 ELSE upg.i
           pa == ReferredPara(server, upg.socket)
           frame == [msg_id |-> kTerminalUpgrade, packet |-> upg.packet,
                     total_packet |-> upg.total_packet, packet_seq |-> upg.packet_seq,
                     msg_flow_num |-> pa.msg_head.msg_flow_num,
                     version_len |-> upg.version_len,
                     data_off |-> off, data_len |-> len]
       IN  \E outcome \in SendOutcomes,
              ubc \in (IF Dangling(server, upg.socket) THEN UBChoices ELSE {"continue"}) :
              LET sent == PackagingAndSendMessage(kTerminalUpgrade, pa, outcome)
                  u1 == [upg EXCEPT !.data_off = off, !.data_len = len,
                                    !.msg_flow_num = sent.para.msg_head.msg_flow_num,
                                    !.ub = @ \/ Dangling(server, upg.socket)]
              IN  IF ubc = "abort"
                  THEN upg' = [upg EXCEPT !.pc = "aborted", !.ub = TRUE]
                       /\ UNCHANGED server
                  ELSE
                  /\ upg' = IF sent.ret < 0 THEN [u1 EXCEPT !.pc = "failed", !.ret = -1]
                            ELSE [u1 EXCEPT !.pc = IF upg.pc = "single"
                                                   THEN "await_single" ELSE "await",
                                            !.frames = Append(@, frame)]
                  /\ server' = [WithReferredPara(server, upg.socket, sent.para) EXCEPT
                                  !.upgrading = IF sent.ret < 0 THEN @ \ {upg.socket}
                                                ELSE @]
    /\ UNCHANGED <<parser, para, rcall, pcall, ncalls, client>>

\* The test UpgradeRequest makes after ReceiveAndParseMessage returned 0:
\* the segmented path looks at parse.msg_head.msg_id, respone_msg_id and
\* respone_result, the unsegmented path at the last two.
Acknowledged(pa, segmented) ==
    /\ segmented => pa.parse.msg_head.msg_id = kTerminalGeneralResponse
    /\ pa.parse.respone_msg_id = kTerminalUpgrade
    /\ pa.parse.respone_result = kSuccess

\* ReceiveAndParseMessage(socket, 5, &para) and the test of what it left in
\* the parse view; then ++packet_seq and the next round of the loop, or the
\* end of UpgradeRequest.
UpgradeAwait(msgs) ==
    /\ upg.pc \in {"await", "await_single"}
    /\ \E got \in ReceiveResults(parser, msgs, ReferredPara(server, upg.socket)),
          ubc \in (IF Dangling(server, upg.socket) THEN UBChoices ELSE {"continue"}) :
          LET r == got.r
              segmented == upg.pc = "await"
              goes_on == r.parsed # "Aborted" /\ r.ret >= 0
                           /\ Acknowledged(r.para, segmented)
              u1 == [upg EXCEPT !.acks = Append(@, [msg |-> got.msg, parsed |-> r.parsed,
                                                   ret |-> r.ret, goes_on |-> goes_on]),
                                !.ub = @ \/ Dangling(server, upg.socket)]
              last == ~segmented \/ upg.i + upg.max_content >= upg.length
          IN  /\ upg' = IF r.parsed = "Aborted" \/ ubc = "abort"
                        THEN [u1 EXCEPT !.pc = "aborted"]
                        ELSE IF ~goes_on THEN [u1 EXCEPT !.pc = "failed", !.ret = -1]
                        ELSE IF ~segmented THEN [u1 EXCEPT !.pc = "done", !.ret = 0]
                        ELSE IF ~last
                        THEN [u1 EXCEPT !.packet_seq = (@ + 1) % 65536,
                                        !.i = @ + upg.max_content, !.pc = "loop"]
                        ELSE [u1 EXCEPT !.packet_seq = (@ + 1) % 65536,
                                        !.i = @ + upg.max_content,
                                        !.packet = 0, !.total_packet = 1,
                                        !.pc = "done", !.ret = 0]
              /\ server' = [WithReferredPara(server, upg.socket, r.para) EXCEPT
                              !.recv = [socket |-> upg.socket, msg |-> got.msg,
                                        parsed |-> r.parsed, ret |-> r.ret],
                              !.upgrading = IF r.parsed = "Aborted" \/ ubc = "abort"
                                                 \/ (goes_on /\ ~last)
                                            THEN @ ELSE @ \ {upg.socket}]
    /\ UNCHANGED <<parser, para, rcall, pcall, ncalls, client>>

UpgradeAck == UpgradeAwait(AckInputs)

NextUpgrade == UpgradeBegin \/ UpgradeSend \/ UpgradeAck

SpecUpgrade == InitUpgrade /\ [][NextUpgrade]_vars

(***************************************************************************)
(* JT808Server::WaitHandler, one step per blocking receive: Accept, the    *)
(* registration and the authentication of the accepted connection.         *)
(***************************************************************************)
\* Connections accepted per behaviour.
MaxSockets == 1

\* The authentication codes rand() yields in the model.
AuthCodes == {AuthCode, <<55>>}

\* What an accepted connection sends first: nothing, a register frame, the
\* same with a wrong checksum or with a phone number that is no BCD, or a
\* heartbeat.
RegisterInputs ==
    {<<>>}
      \cup {Wire(f) : f \in
              {RegisterFrame, BadChecksum(RegisterFrame), HeartBeatFrame,
               FrameOf(kTerminalRegister, 0, Len(RegisterFixed) + 3, BadPhoneBcd, 1, <<>>,
                       RegisterFixed \o <<1, 80, 49>>)}}

\* What it sends after the register response: nothing, an authentication
\* frame with one of the codes, with a wrong checksum, or a heartbeat.
AuthenticationInputs ==
    {<<>>}
      \cup {Wire(AuthenticationFrame(code)) : code \in AuthCodes}
      \cup {Wire(BadChecksum(AuthenticationFrame(AuthCode))), Wire(HeartBeatFrame)}

\* Close(socket); continue.
WaitClose == [server.wait EXCEPT !.pc = "accept", !.socket = 0, !.para = ZeroPara]

\* handshake with one more step noted for socket s.
Noted(handshake, s, step, code) ==
    MapPut(handshake, s, handshake[s] \o <<[step |-> step, code |-> code]>>)

\* Accept(listen_, ...) gives the next connection; ProtocolParameter para {}.
WaitAccept ==
    /\ server.wait.pc = "accept"
    /\ server.sockets < MaxSockets
    /\ LET s == server.sockets + 1
       IN  server' = [server EXCEPT
                        !.sockets = s,
                        !.wait = [pc |-> "register", socket |-> s, para |-> ZeroPara],
                        !.handshake = MapPut(@, s, <<>>)]
    /\ UNCHANGED <<parser, para, rcall, pcall, ncalls, upg, client>>

\* ReceiveAndParseMessage(socket, 3, &para) and the test for a register
\* message; the authentication code is generated and the register response
\* sent with result kRegisterSuccess.
WaitRegister ==
    /\ server.wait.pc = "register"
    /\ \E got \in ReceiveResults(parser, RegisterInputs, server.wait.para),
          code \in AuthCodes, outcome \in SendOutcomes :
          LET r == got.r
              s == server.wait.socket
              recv == [socket |-> s, msg |-> got.msg, parsed |-> r.parsed, ret |-> r.ret]
              pa == [r.para EXCEPT !.authentication_code = code,
                                   !.respone_result = kRegisterSuccess]
              sent == PackagingAndSendMessage(kTerminalRegisterResponse, pa, outcome)
          IN  IF r.parsed = "Aborted"
              THEN server' = [server EXCEPT !.recv = recv, !.wait.pc = "aborted"]
              ELSE IF r.ret < 0 \/ r.para.parse.msg_head.msg_id # kTerminalRegister
              THEN server' = [server EXCEPT !.recv = recv, !.wait = WaitClose]
              ELSE IF sent.ret < 0
              THEN server' = [server EXCEPT
                                !.recv = recv, !.wait = WaitClose,
                                !.handshake = Noted(@, s, "register_received", <<>>)]
              ELSE server' = [server EXCEPT
                                !.recv = recv,
                                !.wait = [pc |-> "authenticate", socket |-> s,
                                          para |-> sent.para],
                                !.handshake =
                                   Noted(Noted(@, s, "register_received", <<>>),
                                         s, "register_response_sent", code)]
    /\ UNCHANGED <<parser, para, rcall, pcall, ncalls, upg, client>>

\* ReceiveAndParseMessage(socket, 3, &para), the test for an authentication
\* message with the code sent, the platform general response and
\* clients_.insert(std::make_pair(socket, para)), which keeps an entry the
\* map already has for the socket.
WaitAuthenticate ==
    /\ server.wait.pc = "authenticate"
    /\ \E got \in ReceiveResults(parser, AuthenticationInputs, server.wait.para),
          outcome \in SendOutcomes :
          LET r == got.r
              s == server.wait.socket
              recv == [socket |-> s, msg |-> got.msg, parsed |-> r.parsed, ret |-> r.ret]
              pa == [r.para EXCEPT !.respone_result = kSuccess]
              sent == PackagingAndSendMessage(kPlatformGeneralResponse, pa, outcome)
              code == r.para.parse.authentication_code
          IN  IF r.parsed = "Aborted"
              THEN server' = [server EXCEPT !.recv = recv, !.wait.pc = "aborted"]
              ELSE IF r.ret < 0
                        \/ r.para.parse.msg_head.msg_id # kTerminalAuthentication
                        \/ r.para.authentication_code # r.para.parse.authentication_code
              THEN server' = [server EXCEPT !.recv = recv, !.wait = WaitClose]
              ELSE IF sent.ret < 0
              THEN server' = [server EXCEPT
                                !.recv = recv, !.wait = WaitClose,
                                !.handshake = Noted(@, s, "authentication_received", code)]
              ELSE server' = [server EXCEPT
                                !.recv = recv, !.wait = WaitClose,
                                !.handshake =
                                   Noted(Noted(@, s, "authentication_received", code),
                                         s, "general_response_sent", <<>>),
                                !.clients = IF s \in DOMAIN @ THEN @
                                            ELSE MapPut(@, s, sent.para)]
    /\ UNCHANGED <<parser, para, rcall, pcall, ncalls, upg, client>>

(***************************************************************************)
(* JT808Server::ServiceHandler: the test for an upgrading client, then     *)
(* Recv on the socket and everything done with what arrived.               *)
(***************************************************************************)
\* Recv calls of the service thread per behaviour.
MaxServiceRecvs == 2

\* kResponseCommand.
ResponseCommands ==
    {kTerminalGeneralResponse, kPlatformGeneralResponse, kTerminalRegisterResponse,
     kGetTerminalParametersResponse, kGetLocationInformationResponse}

\* memcpy(&data_buffer[offset], ..., size) stays inside new char[allocated].
CopyInside(copy) ==
    copy.allocated >= 0 /\ copy.offset >= 0 /\ copy.offset + copy.size <= copy.allocated

\* The memcpy a segmented multimedia upload parsed into pa makes on socket s:
\* the first packet allocates (1023 - 36) * total_packet bytes and fixes
\* packet_max_size, every packet is copied to packet_max_size * (packet_seq - 1).
MediaCopy(svc, pa, s) ==
    LET head == pa.parse.msg_head
        packet_size == Len(pa.parse.multimedia_upload.media_data)
        first == head.packet_seq = 1
        packet_max_size == IF first THEN packet_size ELSE svc.packet_max_size
    IN  [svc EXCEPT
           !.data_buffer = IF first THEN (1023 - 36) * head.total_packet ELSE @,
           !.owner = IF first THEN s ELSE @,
           !.packet_max_size = packet_max_size,
           !.total_size = (IF first THEN 0 ELSE @) + packet_size,
           !.copy = [socket |-> s,
                     allocated |-> IF first THEN (1023 - 36) * head.total_packet
                                   ELSE svc.data_buffer,
                     offset |-> packet_max_size * (head.packet_seq - 1),
                     size |-> packet_size]]

\* Is the message parsed into pa a segmented multimedia data upload?
SegmentedUpload(pa) ==
    /\ pa.parse.msg_head.msg_id = kMultimediaDataUpload
    /\ AttrPacket(pa.parse.msg_head.msgbody_attr) = 1

\* What ServiceHandler does with a message JT808FrameParse accepted into pa0,
\* the para of socket s; the send number failAt (if any) fails as how says.
\* It gives the thread's locals, the para and whether the client was erased.
ServiceDispatch(svc, pa0, s, failAt, how) ==
    LET Outcome(k) == IF k = failAt THEN how ELSE "sent"
        pa == [pa0 EXCEPT !.respone_result = kSuccess]
        head == pa.parse.msg_head
        Cleared(p) == [p EXCEPT !.parse.multimedia_upload.media_data = <<>>,
                                !.parse.multimedia_upload.loaction_report_body = <<>>]
        Result(sv, p, erased) == [service |-> sv, para |-> p, erased |-> erased]
        \* "For non-response commands, the default is the platform general response."
        Final(sv, p, k) ==
            IF head.msg_id \in ResponseCommands THEN Result(sv, p, FALSE)
            ELSE LET x == PackagingAndSendMessage(kPlatformGeneralResponse, p, Outcome(k))
                 IN  Result(sv, x.para, x.ret < 0)
        copied == MediaCopy(svc, pa, s)
        reset == [copied EXCEPT !.data_buffer = -1]
    IN  IF SegmentedUpload(pa)
        THEN LET s1 == PackagingAndSendMessage(kPlatformGeneralResponse, pa, Outcome(1))
                 s2 == PackagingAndSendMessage(kMultimediaDataUploadResponse,
                                               Cleared(s1.para), Outcome(2))
             IN  IF s1.ret < 0 THEN Result(reset, s1.para, TRUE)
                 ELSE IF head.packet_seq # head.total_packet THEN Final(copied, s1.para, 2)
                 ELSE IF s2.ret < 0 THEN Result(reset, s2.para, TRUE)
                 ELSE Final(reset, s2.para, 3)
        ELSE IF head.msg_id = kMultimediaDataUpload
        THEN LET s1 == PackagingAndSendMessage(kMultimediaDataUploadResponse,
                                               Cleared(pa), Outcome(1))
             IN  IF s1.ret < 0 THEN Result(svc, s1.para, TRUE)
                 ELSE Final(svc, s1.para, 2)
        ELSE Final(svc, pa, 1)

\* UpgradeRequest has sent a message on socket s and has not returned.
UpgradeExchanging(s) ==
    /\ upg.socket = s
    /\ \/ upg.pc \in {"await", "await_single"}
       \/ upg.pc = "loop" /\ upg.frames # <<>>

\* The loop over clients_ comes to a socket that is not in
\* is_upgrading_clients_ (one that is gets skipped).
ServicePick ==
    /\ server.service.pc = "idle"
    /\ server.service.nrecv < MaxServiceRecvs
    /\ \E s \in DOMAIN server.clients :
          /\ s \notin server.upgrading
          /\ server' = [server EXCEPT !.service.pc = "recv", !.service.socket = s]
    /\ UNCHANGED <<parser, para, rcall, pcall, ncalls, upg, client>>

\* Recv(socket.first, ...) and the rest of the loop body: nothing there, the
\* connection gone, or one of the messages in msgs, parsed into the client's
\* para and answered.
ServiceReceive(msgs) ==
    /\ server.service.pc = "recv"
    /\ LET s == server.service.socket
           svc == [server.service EXCEPT
                     !.pc = "idle", !.nrecv = @ + 1,
                     !.recv = [socket |-> s, upgrading |-> UpgradeExchanging(s)]]
       IN  \/ server' = [server EXCEPT !.service = svc]
           \/ server' = EraseClient([server EXCEPT !.service = svc], s)
           \/ \E got \in ReceiveResults(parser, msgs, server.clients[s]) :
                 LET r == [ret |-> got.r.parsed, para |-> got.r.para]
                     copy == MediaCopy(svc, r.para, s).copy
                     stray == r.ret = "Ok" /\ SegmentedUpload(r.para) /\ ~CopyInside(copy)
                 IN  \E fail \in SendFailures,
                        ubc \in (IF stray THEN UBChoices ELSE {"continue"}) :
                     LET d == ServiceDispatch(svc, r.para, s, fail[1], fail[2])
                     IN
                     IF r.ret = "Aborted"
                     THEN server' = [server EXCEPT !.service = [svc EXCEPT !.pc = "aborted"]]
                     ELSE IF r.ret # "Ok"
                     THEN server' = [server EXCEPT !.service = svc,
                                                   !.clients[s] = r.para]
                     ELSE IF ubc = "abort"
                     THEN server' = [server EXCEPT
                                       !.service = [svc EXCEPT !.pc = "aborted",
                                                               !.copy = copy],
                                       !.clients[s] = r.para]
                     ELSE server' =
                            LET srv == [server EXCEPT !.service = d.service,
                                                      !.clients[s] = d.para]
                            IN  IF d.erased THEN EraseClient(srv, s) ELSE srv
    /\ UNCHANGED <<parser, para, rcall, pcall, ncalls, upg, client>>

(***************************************************************************)
(* The waiting thread interleaved with a caller of UpgradeRequest, and the  *)
(* service thread of a connected terminal interleaved with that caller.    *)
(***************************************************************************)
\* What a connected terminal sends to the service thread.
ServiceInputs ==
    {Wire(HeartBeatFrame),
     Wire(ResponseFrame(kTerminalGeneralResponse, kTerminalUpgrade, kSuccess))}

\* The files of the upgrades requested: one message, two segments.
ServerFileLengths == {5, 1500}

InitServer ==
    /\ parser = ServerRegistry
    /\ para = ZeroPara
    /\ rcall = NoRegistryCall
    /\ pcall = NoParseCall
    /\ ncalls = 0
    /\ upg = NoUpgrade
    /\ server = NoServer
    /\ client = NoClient

ServiceRecv == ServiceReceive(ServiceInputs)

\* What arrives while UpgradeRequest waits: nothing (the service thread took
\* it, or the terminal is silent) or the terminal's acknowledgement.
ServerAckInputs ==
    {<<>>, Wire(ResponseFrame(kTerminalGeneralResponse, kTerminalUpgrade, kSuccess))}

ServerUpgradeAck == UpgradeAwait(ServerAckInputs)

ServerUpgradeBegin ==
    \E socket \in UpgradeSockets, length \in ServerFileLengths :
       UpgradeStart(socket, 0, length, TRUE)

NextServer ==
    \/ WaitAccept \/ WaitRegister \/ WaitAuthenticate
    \/ ServerUpgradeBegin \/ UpgradeSend \/ ServerUpgradeAck

SpecServer == InitServer /\ [][NextServer]_vars

\* Terminal 1 is connected, as in InitUpgrade.
NextService ==
    \/ ServicePick \/ ServiceRecv
    \/ ServerUpgradeBegin \/ UpgradeSend \/ ServerUpgradeAck

SpecService == InitUpgrade /\ [][NextService]_vars

(***************************************************************************)
(* The service thread with two connected terminals that upload multimedia  *)
(* data in segments.                                                       *)
(***************************************************************************)
\* Packet number packet_seq of total_packet of an upload, two data bytes
\* after the 36 bytes of multimedia information and location.
MediaFrame(total_packet, packet_seq) ==
    FrameOf(kMultimediaDataUpload, 1, 38, PhoneBcd, 5,
            <<Hi(total_packet), Lo(total_packet), Hi(packet_seq), Lo(packet_seq)>>,
            <<0, 0, 0, 5, 0, 0, 1, 2>> \o Zeros(28) \o <<Lo(packet_seq), 9>>)

\* What the terminals send: the packets of a two-packet upload, a one-packet
\* upload, and a packet numbered beyond its total.
MediaInputs ==
    {Wire(MediaFrame(pk[1], pk[2])) : pk \in {<<2, 1>>, <<2, 2>>, <<1, 1>>, <<2, 1000>>}}

InitMedia ==
    /\ parser = ServerRegistry
    /\ para = ZeroPara
    /\ rcall = NoRegistryCall
    /\ pcall = NoParseCall
    /\ ncalls = 0
    /\ upg = NoUpgrade
    /\ server = [NoServer EXCEPT
                   !.clients = MapPut(MapPut(EmptyMap, 1, HandshakenPara(AuthCode)),
                                      2, HandshakenPara(AuthCode)),
                   !.handshake = MapPut(MapPut(EmptyMap, 1, FullHandshake(AuthCode)),
                                        2, FullHandshake(AuthCode)),
                   !.sockets = 2]
    /\ client = NoClient

MediaRecv == ServiceReceive(MediaInputs)

NextMedia == ServicePick \/ MediaRecv

SpecMedia == InitMedia /\ [][NextMedia]_vars

(***************************************************************************)
(* JT808Client's polygon area calls in any order on a set that starts      *)
(* empty.                                                                  *)
(***************************************************************************)
MaxAreaCalls == 3

AreaIds == {7, 8}

\* The areas a caller passes: per ID, two speed limits.
AreaInputs ==
    {[ZeroPolygonArea EXCEPT !.area_id = id, !.max_speed = v] :
        id \in AreaIds, v \in {60, 80}}

\* The caller's PolygonArea object before GetPolygonAreaByID.
CallerArea == [ZeroPolygonArea EXCEPT !.area_id = 1, !.max_speed = 1]

InitClient ==
    /\ parser = ParseRegistry
    /\ para = ZeroPara
    /\ rcall = NoRegistryCall
    /\ pcall = NoParseCall
    /\ ncalls = 0
    /\ upg = NoUpgrade
    /\ server = NoServer
    /\ client = NoClient

AreaCalled(op, id, isNull, areas, ret, out, readEnd, aborted) ==
    /\ client.ncalls < MaxAreaCalls
    /\ client' = [polygon_areas |-> areas, ncalls |-> client.ncalls + 1,
                  call |-> [op |-> op, id |-> id, isNull |-> isNull, ret |-> ret,
                            out |-> out, pre |-> client.polygon_areas,
                            readEnd |-> readEnd, aborted |-> aborted]]
    /\ UNCHANGED <<parser, para, rcall, pcall, ncalls, upg, server>>

ClientAdd ==
    \E area \in AreaInputs :
       LET r == AddPolygonArea(client.polygon_areas, area)
       IN  AreaCalled("Add", area.area_id, FALSE, r.map, r.ret, area, FALSE, FALSE)

ClientUpdate ==
    \E area \in AreaInputs :
       AreaCalled("Update", area.area_id, FALSE,
                  UpdatePolygonArea(client.polygon_areas, area), 0, area, FALSE, FALSE)

ClientDelete ==
    \E id \in AreaIds :
       AreaCalled("Delete", id, FALSE, DeletePolygonAreaByID(client.polygon_areas, id),
                  0, ZeroPolygonArea, FALSE, FALSE)

\* GetPolygonAreaByID(id, isNull ? nullptr : &area).  The copy through the
\* end iterator kills the process or copies whatever lies there: nothing
\* sensible, or an area of the set.
ClientGet ==
    \E id \in AreaIds, isNull \in BOOLEAN :
       LET areas == client.polygon_areas
           r0 == GetPolygonAreaByID(areas, id, isNull, CallerArea, ZeroPolygonArea)
       IN  IF ~r0.readEnd
           THEN AreaCalled("Get", id, isNull, areas, r0.ret, r0.out, FALSE, FALSE)
           ELSE \E ubc \in UBChoices :
                  \E stray \in {ZeroPolygonArea} \cup {areas[k] : k \in DOMAIN areas} :
                     LET r == GetPolygonAreaByID(areas, id, isNull, CallerArea, stray)
                     IN  AreaCalled("Get", id, isNull, areas, r.ret,
                                    IF ubc = "abort" THEN CallerArea ELSE r.out,
                                    TRUE, ubc = "abort")

NextClient == ClientAdd \/ ClientUpdate \/ ClientDelete \/ ClientGet

SpecClient == InitClient /\ [][NextClient]_vars

(***************************************************************************)
(* Properties.                                                             *)
(***************************************************************************)
Parsed == pcall.op = "Parse"

\* The errors JT808FrameParse itself reports, and every error a caller can see.
StageErrors ==
    {"ParametersNull", "UnesapingError", "ChecksumError", "HeaderParseError",
     "UnregisteredMessageParser"}
ErrorKinds == StageErrors \cup {"MiscError"}

\* Everything of a ProtocolParameter outside its parse sub-view.
SendView(p) == [f \in DOMAIN p \ {"parse"} |-> p[f]]

\* The call got past JT808FrameHeadParse.
HeaderPassed ==
    Parsed /\ (pcall.ret \in {"Ok", "MiscError", "UnregisteredMessageParser"}
               \/ pcall.invoked # <<>>)

\* The least element of a non-empty set of indices.
Least(S) == CHOOSE k \in S : \A j \in S : k <= j

\* C1: JT808FrameParse reports the first failing stage in the order null
\* parameter, unescape, checksum, header, registry lookup; an unregistered
\* msg_id invokes no decoder; otherwise exactly the decoder registered for the
\* parsed msg_id runs once and the result is Ok iff it returned 0, a failure
\* being an error that is none of the five stage errors.  (For a frame too
\* short to hold a checksum the claim is read as allowing either outcome of
\* the comparison.)
C1_FirstFailingStage ==
    Parsed =>
      IF pcall.isNull THEN pcall.ret = "ParametersNull" /\ pcall.invoked = <<>>
      ELSE LET u == ReverseEscape(pcall.in)
               n == Len(u.out)
               head == JT808FrameHeadParse(u.out, ZeroMsgHead)
               id == head.head.msg_id
           IN  IF u.ret < 0 THEN pcall.ret = "UnesapingError" /\ pcall.invoked = <<>>
               ELSE IF n < 3
               THEN pcall.ret \in {"ChecksumError", "HeaderParseError"}
                    /\ pcall.invoked = <<>>
               ELSE IF XorRange(u.out, 2, n - 2) # u.out[n - 1]
               THEN pcall.ret = "ChecksumError" /\ pcall.invoked = <<>>
               ELSE IF head.ret # 0
               THEN pcall.ret = "HeaderParseError" /\ pcall.invoked = <<>>
               ELSE IF id \notin DOMAIN parser
               THEN pcall.ret = "UnregisteredMessageParser" /\ pcall.invoked = <<>>
               ELSE /\ Len(pcall.invoked) = 1
                    /\ pcall.invoked[1].msg_id = id
                    /\ pcall.invoked[1].handler = parser[id]
                    /\ (pcall.ret = "Ok") <=> (pcall.invoked[1].ret = 0)
                    /\ pcall.ret \in {"Ok"} \cup (ErrorKinds \ StageErrors)

\* C2: when JT808FrameParse returns an error, everything of the caller's
\* ProtocolParameter outside the parse sub-view is as it was before the call.
C2_ErrorKeepsSendView ==
    (Parsed /\ ~pcall.isNull /\ pcall.ret \in ErrorKinds)
        => SendView(para) = SendView(pcall.pre)

\* C3: JT808FrameParserAppend returns false on a null registry and on a
\* registered msg_id, leaving the registry as it was; on an absent msg_id it
\* returns true and adds exactly msg_id -> handler.
C3_AppendContract ==
    rcall.op = "Append" =>
      IF rcall.isNull \/ rcall.msg_id \in DOMAIN rcall.pre
      THEN rcall.ret = FALSE /\ parser = rcall.pre
      ELSE /\ rcall.ret = TRUE
           /\ DOMAIN parser = DOMAIN rcall.pre \cup {rcall.msg_id}
           /\ parser[rcall.msg_id] = rcall.handler
           /\ \A k \in DOMAIN rcall.pre : parser[k] = rcall.pre[k]

\* C3 witness: an Append of a different handler for a registered msg_id.
C3_Witness ==
    /\ rcall.op = "Append" /\ ~rcall.isNull
    /\ rcall.msg_id \in DOMAIN rcall.pre
    /\ rcall.pre[rcall.msg_id] # rcall.handler
    /\ rcall.pre[rcall.msg_id].kind = "builtin"

\* C4: JT808FrameParserOverride on a non-null registry returns true, leaves
\* msg_id -> handler registered, changes no other entry, and the registry
\* grows by one entry iff msg_id was absent.
C4_OverrideContract ==
    (rcall.op = "Override" /\ ~rcall.isNull) =>
      /\ rcall.ret = TRUE
      /\ rcall.msg_id \in DOMAIN parser
      /\ parser[rcall.msg_id] = rcall.handler
      /\ DOMAIN parser \ {rcall.msg_id} = DOMAIN rcall.pre \ {rcall.msg_id}
      /\ \A k \in DOMAIN rcall.pre \ {rcall.msg_id} : parser[k] = rcall.pre[k]
      /\ Cardinality(DOMAIN parser)
           = Cardinality(DOMAIN rcall.pre)
               + (IF rcall.msg_id \in DOMAIN rcall.pre THEN 0 ELSE 1)

\* C4 witness: an Override that replaces the built-in decoder of a msg_id.
C4_Witness ==
    /\ rcall.op = "Override" /\ ~rcall.isNull
    /\ rcall.msg_id \in DOMAIN rcall.pre
    /\ rcall.pre[rcall.msg_id].kind = "builtin"
    /\ parser[rcall.msg_id] = rcall.handler

C6_ShortFrameRejected ==
    (Parsed /\ ~pcall.isNull /\ ReverseEscape(pcall.in).ret = 0
       /\ Len(ReverseEscape(pcall.in).out) < 15)
        => (pcall.ret \in ErrorKinds /\ ~pcall.ub)

\* C7: for a frame that passes the header decoder, total_packet and
\* packet_seq are the big-endian values of bytes 13-14 and 15-16 when the
\* packet bit is 1, and both 0 when it is 0, whatever body_len says.
C7_SegmentationFields ==
    (HeaderPassed /\ Len(pcall.out) >= 19) =>
      LET h == para.parse.msg_head
          attr == (pcall.out[4] * 256) + pcall.out[5]
      IN  IF AttrPacket(attr) = 1
          THEN /\ h.total_packet = (pcall.out[14] * 256) + pcall.out[15]
               /\ h.packet_seq = (pcall.out[16] * 256) + pcall.out[17]
          ELSE h.total_packet = 0 /\ h.packet_seq = 0

\* C8: a built-in decoder that reads body bytes reads them from index 17 on
\* when the parsed header has packet == 1 and from index 13 on otherwise.
C8_BodyStart ==
    (Parsed /\ pcall.invoked # <<>> /\ pcall.reads # {}) =>
      (pcall.invoked[1].handler.kind = "builtin" =>
         Least(pcall.reads)
           = (IF AttrPacket(para.parse.msg_head.msgbody_attr) = 1 THEN 17 ELSE 13))

\* C9: after a call that returns Ok, the parsed body length is the number of
\* body bytes of the unescaped frame: size - 15, or size - 19 when packet == 1.
C9_BodyLenIsReal ==
    (Parsed /\ pcall.ret = "Ok") =>
      LET attr == para.parse.msg_head.msgbody_attr
      IN  AttrMsgLen(attr)
            = Len(pcall.out) - (IF AttrPacket(attr) = 1 THEN 19 ELSE 15)

\* C10: the 0x8003 decoder, on a body of body_len bytes with count = body[2]:
\* when body_len = 3 + 2 * count it sets packet_id[i] = 256 * body[3 + 2i]
\* + body[4 + 2i] and first_packet_msg_flow_num = 256 * body[0] + body[1];
\* otherwise it fails.
C10_FillPacketIds ==
    (Parsed /\ pcall.invoked # <<>> /\ ~pcall.ub) =>
      (pcall.invoked[1].handler = BuiltinHandler(kFillPacketRequest) =>
         LET attr == para.parse.msg_head.msgbody_attr
             start == IF AttrPacket(attr) = 1 THEN 17 ELSE 13
             body == Slice(pcall.out, start, AttrMsgLen(attr))
             count == body[3]
             fp == para.parse.fill_packet
         IN  IF Len(body) = 3 + (2 * count)
             THEN /\ pcall.ret = "Ok"
                  /\ fp.first_packet_msg_flow_num = (256 * body[1]) + body[2]
                  /\ fp.packet_id
                       = [i \in 1..count |-> (256 * body[2 + (2 * i)]) + body[3 + (2 * i)]]
             ELSE pcall.ret = "MiscError")

\* The built-in decoder of msg_id ran in the last call and the call returned.
Decoded_By(msg_id) ==
    /\ Parsed /\ pcall.ret # "Aborted" /\ pcall.invoked # <<>>
    /\ pcall.invoked[1].handler = BuiltinHandler(msg_id)

\* Of the frame parsed last: the index of its first body byte, the body
\* length its header states and the body bytes it really has.
BodyStart == IF AttrPacket((pcall.out[4] * 256) + pcall.out[5]) = 1 THEN 17 ELSE 13
StatedLen == AttrMsgLen((pcall.out[4] * 256) + pcall.out[5])
RealBody == Slice(pcall.out, BodyStart, Len(pcall.out) - BodyStart - 2)

\* s is a sequence of complete items id, len, len value bytes.
RECURSIVE TlvComplete(_)
TlvComplete(s) ==
    \/ s = <<>>
    \/ /\ Len(s) >= 2
       /\ s[2] <= Len(s) - 2
       /\ TlvComplete(SubSeq(s, 3 + s[2], Len(s)))

\* Walking the items of s meets one whose length byte exceeds the number of
\* bytes after it.
RECURSIVE TlvOverlong(_)
TlvOverlong(s) ==
    /\ Len(s) >= 2
    /\ \/ s[2] > Len(s) - 2
       \/ TlvOverlong(SubSeq(s, 3 + s[2], Len(s)))

\* C11: the 0x0201 decoder sets parse.respone_flow_num to 256 * body[0] +
\* body[1], the big-endian value of the first two body bytes.
C11_ResponseFlowNum ==
    (Decoded_By(kGetLocationInformationResponse) /\ StatedLen >= 30
       /\ Len(RealBody) = StatedLen)
        => para.parse.respone_flow_num = (256 * RealBody[1]) + RealBody[2]

\* C12: for a well-formed 0x0201 body (flow number, 28-byte basic block,
\* complete items, body_len the real length) the decoder succeeds and yields
\* the basic block and the items the 0x0200 decoder yields for the body
\* without its first two bytes.
C12_ResponseLikeReport ==
    (Decoded_By(kGetLocationInformationResponse) /\ Len(RealBody) = StatedLen
       /\ StatedLen >= 30 /\ TlvComplete(SubSeq(RealBody, 31, Len(RealBody))))
        => LET rest == SubSeq(RealBody, 3, Len(RealBody))
               frame == SubSeq(pcall.out, 1, BodyStart) \o rest \o <<0, PROTOCOL_SIGN>>
               head == [para.parse.msg_head EXCEPT !.msgbody_attr = @ - 2]
               report == DecodeLocationReport(frame,
                                              [pcall.pre.parse EXCEPT !.msg_head = head], 0)
           IN  /\ pcall.ret = "Ok"
               /\ report.ret = 0
               /\ para.parse.location_info = report.parse.location_info
               /\ para.parse.location_extension = report.parse.location_extension

\* C13: the 0x0200 decoder fails on every body with an item whose length
\* byte exceeds the number of body bytes after it, and takes no item byte
\* from outside the body.
C13_OverlongItemRejected ==
    (Decoded_By(kLocationReport) /\ Len(RealBody) = StatedLen /\ StatedLen >= 28
       /\ TlvOverlong(SubSeq(RealBody, 29, Len(RealBody))))
        => /\ pcall.ret = "MiscError"
           /\ pcall.reads \subseteq BodyStart .. (BodyStart + StatedLen - 1)

\* C14: after successfully parsed Register (0x0100) frames on the same
\* ProtocolParameter, parse.register_info.car_plate_num is empty iff
\* parse.register_info.car_plate_color is kVin.
C14_PlateIffNotVin ==
    (Decoded_By(kTerminalRegister) /\ pcall.ret = "Ok" /\ Len(RealBody) = StatedLen)
        => ((para.parse.register_info.car_plate_num = <<>>)
              <=> (para.parse.register_info.car_plate_color = kVin))

\* C15: after a successful parse of a Register Response (0x8100) frame,
\* parse.authentication_code is body bytes 3 .. body_len - 1 when the result
\* byte is 0 and empty otherwise, whatever was parsed before.
C15_AuthCodeOnlyOnSuccess ==
    (Decoded_By(kTerminalRegisterResponse) /\ pcall.ret = "Ok"
       /\ Len(RealBody) = StatedLen /\ StatedLen >= 3 /\ BodyStart = 13)
        => para.parse.authentication_code
             = (IF RealBody[3] = 0 THEN SubSeq(RealBody, 4, Len(RealBody)) ELSE <<>>)

\* C16: the 0x8604 decoder, when by_time is set in the parsed attribute, sets
\* polygon_area.start_time and stop_time to the 12 digits of the two 6-byte
\* BCD fields after the attribute word and goes on decoding after those 12
\* bytes; when by_time is clear it consumes no time bytes.
C16_PolygonTimes ==
    (Decoded_By(kSetPolygonArea) /\ pcall.ret = "Ok" /\ Len(RealBody) = StatedLen)
        => LET area == para.parse.polygon_area
               byTime == AttrByTime((RealBody[5] * 256) + RealBody[6]) = 1
               limit == AttrSpeedLimit((RealBody[5] * 256) + RealBody[6]) = 1
               \* index in the frame of the byte after the time fields
               next == BodyStart + 6 + (IF byTime THEN 12 ELSE 0)
               count == next + (IF limit THEN 3 ELSE 0)
           IN  /\ byTime =>
                    /\ area.start_time = BcdToStringFillZero(SubSeq(RealBody, 7, 12))
                    /\ area.stop_time = BcdToStringFillZero(SubSeq(RealBody, 13, 18))
               /\ limit => area.max_speed = U16At(pcall.out, next, 0)
               /\ area.vertices
                    = PolygonVertices(pcall.out, count + 2, BodyStart + StatedLen, 0)

\* The items id (4 bytes, big-endian), len, len value bytes that s consists
\* of, as pairs <<id, value>>; s is not such a sequence iff "bad" is in the set.
RECURSIVE ParamItemsOf(_)
ParamItemsOf(s) ==
    IF s = <<>> THEN {}
    ELSE IF Len(s) < 5 \/ Len(s) < 5 + s[5] THEN {"bad"}
    ELSE {<<(((((s[1] * 256) + s[2]) * 256) + s[3]) * 256) + s[4],
            SubSeq(s, 6, 5 + s[5])>>}
           \cup ParamItemsOf(SubSeq(s, 6 + s[5], Len(s)))

\* C17: after a successful parse of a well-formed 0x8103 body whose count
\* items have pairwise distinct IDs, parse.terminal_parameters is exactly the
\* mapping id -> value of these items, whatever earlier parses left there,
\* and the send view's terminal_parameters is as before the call.
C17_TerminalParameters ==
    (Decoded_By(kSetTerminalParameters) /\ pcall.ret = "Ok"
       /\ Len(RealBody) = StatedLen /\ StatedLen >= 1)
        => LET items == ParamItemsOf(SubSeq(RealBody, 2, Len(RealBody)))
           IN  ("bad" \notin items /\ Cardinality(items) = RealBody[1]
                  /\ Cardinality({it[1] : it \in items}) = RealBody[1])
                 => /\ DOMAIN para.parse.terminal_parameters = {it[1] : it \in items}
                    /\ \A it \in items : para.parse.terminal_parameters[it[1]] = it[2]
                    /\ para.terminal_parameters = pcall.pre.terminal_parameters

\* C17 witness: a second set of parameters replaces the different one the
\* parse before left, next to a send view that holds parameters of its own.
C17_Witness ==
    /\ Decoded_By(kSetTerminalParameters) /\ pcall.ret = "Ok"
    /\ Cardinality(DOMAIN para.parse.terminal_parameters) = 2
    /\ DOMAIN pcall.pre.parse.terminal_parameters = {61472}
    /\ DOMAIN para.terminal_parameters = {61472}
    /\ para.parse.terminal_parameters # para.terminal_parameters

\* The upgrade is a segmented one: the file is longer than max_content.
Segmented == upg.pc # "idle" /\ upg.length > upg.max_content

\* C18: a segmented upgrade whose segments are all acknowledged sends exactly
\* N = ceil(L / max_content) Terminal Upgrade frames; each has packet 1 and
\* total_packet N, packet_seq runs 1, 2, ..., N, and the chunks put end to
\* end are the file.
C18_SegmentsInOrder ==
    Segmented =>
      LET n == CeilDiv(upg.length, upg.max_content)
      IN  /\ \A k \in 1..Len(upg.frames) :
               /\ upg.frames[k].msg_id = kTerminalUpgrade
               /\ upg.frames[k].packet = 1
               /\ upg.frames[k].total_packet = n
               /\ upg.frames[k].packet_seq = k
               /\ upg.frames[k].data_off
                    = (IF k = 1 THEN 0
                       ELSE upg.frames[k - 1].data_off + upg.frames[k - 1].data_len)
          /\ upg.pc = "done" =>
               /\ Len(upg.frames) = n
               /\ upg.frames[n].data_off + upg.frames[n].data_len = upg.length

\* C19: the frames UpgradeRequest sends for one segmented upgrade all carry
\* the same message flow number.
C19_SameFlowNumber ==
    Segmented =>
      \A j, k \in 1..Len(upg.frames) :
         upg.frames[j].msg_flow_num = upg.frames[k].msg_flow_num

\* C20: every Terminal Upgrade frame UpgradeRequest sends, segmented or not,
\* has a body of upgrade_type 1 + manufacturer 5 + version_len 1 + version +
\* total_len 4 + chunk bytes that is at most 1023 bytes long.
C20_BodyFitsTenBits ==
    \A k \in 1..Len(upg.frames) :
       1 + 5 + 1 + upg.frames[k].version_len + 4 + upg.frames[k].data_len <= 1023

\* C22: GetPolygonAreaByID(id, area) with a non-null area returns 0 and
\* copies the stored area into *area exactly when an area with that ID is in
\* the set, and returns -1 without reading any element when the ID is
\* absent or the set is empty, after any Add, Update and Delete calls.
C22_GetAreaById ==
    (client.call.op = "Get" /\ ~client.call.isNull)
        => LET c == client.call
           IN  IF c.id \in DOMAIN c.pre
               THEN ~c.aborted /\ c.ret = 0 /\ c.out = c.pre[c.id]
               ELSE ~c.aborted /\ c.ret = -1 /\ ~c.readEnd

\* The map of the items id, len, value of s, a sequence of complete items.
RECURSIVE ExtItemsOf(_)
ExtItemsOf(s) ==
    IF Len(s) < 2 THEN EmptyMap
    ELSE LET rest == ExtItemsOf(SubSeq(s, 3 + s[2], Len(s)))
         IN  IF s[1] \in DOMAIN rest THEN rest
             ELSE MapPut(rest, s[1], SubSeq(s, 3, 2 + s[2]))

\* The ext_ids of the items of s, in order.
RECURSIVE ExtIdsOf(_)
ExtIdsOf(s) ==
    IF Len(s) < 2 THEN <<>> ELSE <<s[1]>> \o ExtIdsOf(SubSeq(s, 3 + s[2], Len(s)))

\* The last parse decoded a Location Report whose body is the basic block
\* followed only by complete items.
WellFormedReport ==
    /\ Decoded_By(kLocationReport)
    /\ Len(RealBody) = StatedLen /\ StatedLen >= 28
    /\ TlvComplete(SubSeq(RealBody, 29, Len(RealBody)))

\* C23: for every Location Report body of 29 to 1023 bytes that is the basic
\* block followed only by complete items with pairwise distinct ext_ids, the
\* decoder returns success and parse.location_extension holds every item of
\* the body with its value bytes.
C23_LongReportItems ==
    LET tail == SubSeq(RealBody, 29, Len(RealBody))
        ids == ExtIdsOf(tail)
    IN  (WellFormedReport /\ StatedLen >= 29
           /\ \A i, j \in 1..Len(ids) : ids[i] = ids[j] => i = j)
            => /\ pcall.ret = "Ok"
               /\ \A id \in DOMAIN ExtItemsOf(tail) :
                    /\ id \in DOMAIN para.parse.location_extension
                    /\ para.parse.location_extension[id] = ExtItemsOf(tail)[id]

\* C24: after successfully parsed Register (0x0100) frames on the same
\* ProtocolParameter, parse.register_info.terminal_model is the most recent
\* frame's 20-byte model field up to its first 0x00 and terminal_id its
\* 7-byte terminal-id field up to its first 0x00.
C24_RegisterModelAndId ==
    (Decoded_By(kTerminalRegister) /\ pcall.ret = "Ok" /\ Len(RealBody) = StatedLen
       /\ StatedLen >= 37)
        => /\ para.parse.register_info.terminal_model
                = UntilZero(SubSeq(RealBody, 10, 29))
           /\ para.parse.register_info.terminal_id
                = UntilZero(SubSeq(RealBody, 30, 36))

\* C25: after a successful parse of a Location Report (0x0200) frame,
\* parse.location_extension holds exactly the items of that frame: none of
\* an earlier frame, and none at all after a 28-byte body.
C25_ExtensionsOfThisFrame ==
    (WellFormedReport /\ pcall.ret = "Ok" /\ StatedLen + BodyStart < 256)
        => para.parse.location_extension
             = ExtItemsOf(SubSeq(RealBody, 29, Len(RealBody)))

\* C27: JT808FrameParse with the built-in decoders never reads an index
\* outside the unescaped frame: for every input that passes the unescape,
\* checksum and header stages, the decoder it invokes returns failure or
\* reads only indices below the length of the buffer.
C27_ReadsInsideFrame ==
    (Parsed /\ pcall.invoked # <<>> /\ pcall.invoked[1].handler.kind = "builtin")
        => \/ pcall.ret = "MiscError"
           \/ (pcall.ret = "Ok" /\ ~pcall.ub
                 /\ pcall.reads \subseteq 0 .. (Len(pcall.out) - 1))

\* C21: ReceiveAndParseMessage returns 0 only if data was received and
\* JT808FrameParse reported success for it; for every parse error kind it
\* returns a negative value.
C21_ReceiveReturnValue ==
    (server.recv.socket # 0)
        => /\ server.recv.ret = 0
                => (server.recv.msg # <<>> /\ server.recv.parsed = "Ok")
           /\ server.recv.parsed \in ErrorKinds => server.recv.ret < 0

\* msg is a frame JT808FrameParse accepts as a Terminal General Response to
\* 0x8108 with result success, whatever was parsed before it.
IsUpgradeAck(msg) ==
    /\ msg # <<>>
    /\ LET r == JT808FrameParse(ServerRegistry, msg, FALSE, ZeroPara, 0, "continue")
       IN  /\ r.ret = "Ok"
           /\ r.para.parse.msg_head.msg_id = kTerminalGeneralResponse
           /\ r.para.parse.respone_msg_id = kTerminalUpgrade
           /\ r.para.parse.respone_result = kSuccess

\* C28: UpgradeRequest sends segment k + 1, and returns 0 after the last
\* segment, only if after sending segment k it received a frame that
\* JT808FrameParse accepted as a Terminal General Response to 0x8108 with
\* result success.
C28_EverySegmentAcknowledged ==
    \A k \in 1..Len(upg.acks) : upg.acks[k].goes_on => IsUpgradeAck(upg.acks[k].msg)

\* C26: every socket in clients_ has completed the whole handshake in order:
\* register received, register response with a generated code sent,
\* authentication with that code received, platform general response sent.
C26_ClientsHandshaken ==
    \A s \in DOMAIN server.clients :
       /\ s \in DOMAIN server.handshake
       /\ \E code \in AuthCodes : server.handshake[s] = FullHandshake(code)

\* C30: the service thread never calls Recv on a socket between
\* UpgradeRequest's first send on that socket and its return.
C30_NoRecvWhileUpgrading ==
    server.service.recv.upgrading = FALSE
\* C29: every memcpy of a segmented multimedia upload into the reassembly
\* buffer is inside an allocated buffer: the buffer exists, and
\* packet_max_size * (packet_seq - 1) + packet size is at most the
\* (1023 - 36) * total_packet bytes allocated.
C29_CopyInsideBuffer ==
    (server.service.copy.socket # 0) => CopyInside(server.service.copy)
=============================================================================
